---- MODULE Spec2Model ----
(***************************************************************************)
(* Model of the NextEVI voice SDK session layer:                           *)
(*   - voiceReducer and the VoiceProvider handlers (VoiceProvider.tsx),    *)
(*   - WebSocketManager (websocket.ts),                                    *)
(*   - AudioManager resource handling (audio.ts).                          *)
(* JavaScript runs one task at a time; every action below is one task (or  *)
(* one run of a promise continuation up to its next real suspension).      *)
(***************************************************************************)
EXTENDS Integers, Sequences, FiniteSets, TLC

(* ---------------------------- bounds ---------------------------------- *)
MaxMsgs == 3          \* longest message log explored
MaxClock == 1         \* Date.now() takes the values 0..MaxClock
MaxDisconnects == 2   \* session disconnect() calls per behaviour
MaxSock == 2          \* sockets alive at the same time
MaxStale == 1         \* timers of either kind pending when a caller calls the transport
MaxQueue == 3         \* PCM buffers waiting in the queue of the playback worklet

(* ------------------------- program constants -------------------------- *)
maxReconnectAttempts == 3
reconnectDelay == 1000

Text == {"", "a", "b"}          \* "" stands for a transcript that trims to nothing
Conf == {9}                     \* confidence in tenths; a message without one reads 0
Rnd == 1..(MaxMsgs + 3)         \* values of the random suffix of generateMessageId
NullId == <<"null", 0, 0>>      \* currentStreamingMessageId.current = null

\* the cast: one connect() invocation, which creates one manager of each kind, and the
\* disconnect() invocations 2, 3, ... that may overlap it and each other
ConnCalls == {1}
DiscCalls == {1 + d : d \in 1..MaxDisconnects}
Mgrs == ConnCalls               \* WebSocketManager objects, named by the connect() creating them
Ams == ConnCalls                \* AudioManager objects, likewise
Socks == 1..MaxSock             \* WebSocket objects that are not yet closed
AgainCalls == {MaxDisconnects + 2}   \* a connect() invoked on a session that has one already
SessCalls == ConnCalls \cup AgainCalls
Calls == SessCalls \cup DiscCalls

VARIABLES
  state,                        \* VoiceState held by useReducer
  currentStreamingMessageId,    \* useRef
  wsManagerRef,                 \* useRef: 0 is null, otherwise a manager
  audioManagerRef,              \* useRef: 0 is null, otherwise an audio manager
  ws,                           \* the fields of every WebSocketManager
  sock,                         \* the browser's WebSocket objects
  am,                           \* the fields of every AudioManager and its devices
  call,                         \* position of every connect()/disconnect() invocation
  clock,                        \* Date.now()
  ev,                           \* the handler that ran last and the call or manager it ran for
  hist                          \* observations of the run used to state properties

vars == <<state, currentStreamingMessageId, wsManagerRef, audioManagerRef,
          ws, sock, am, call, clock, ev, hist>>

(* ------------------------------ state --------------------------------- *)
NoIdleWarning == [active |-> FALSE, timeRemaining |-> 0, type |-> "none"]

initialState ==
  [ readyState |-> "disconnected",
    messages |-> <<>>,
    isRecording |-> FALSE,
    isTTSPlaying |-> FALSE,
    isWaitingForResponse |-> FALSE,
    connectionMetadata |-> "undefined",
    error |-> "undefined",
    idleWarning |-> NoIdleWarning ]

\* metadata of a message; absent keys read as falsy
NoMeta ==
  [ isStreaming |-> FALSE, isFinal |-> FALSE, confidence |-> 0,
    emotions |-> "none", turnComplete |-> FALSE, messageType |-> "none" ]

\* a VoiceMessage; its timestamp, which no handler reads, is left out
Message(id, type, content, meta) ==
  [ id |-> id, type |-> type, content |-> content, metadata |-> meta ]

(* --------------------------- voiceReducer ----------------------------- *)
UpdateStreamingMessage(s, p) ==
  LET messages == s.messages
      lastIndex == Len(messages)
  IN IF lastIndex >= 1
        /\ messages[lastIndex].type = p.type
        /\ messages[lastIndex].metadata.isStreaming
     THEN [s EXCEPT !.messages[lastIndex].content = p.content]
     ELSE [s EXCEPT !.messages =
             Append(messages,
                    Message(<<"streaming", clock, 0>>, p.type, p.content,
                            [NoMeta EXCEPT !.isStreaming = TRUE]))]

FinalizeStreamingMessage(s, p) ==
  [s EXCEPT !.messages =
     [i \in 1..Len(s.messages) |->
        IF s.messages[i].id = p.id
        THEN [s.messages[i] EXCEPT !.content = p.content, !.metadata.isStreaming = FALSE]
        ELSE s.messages[i]]]

\* LastUserMessageWithoutEmotions looking at every user message, with emotions or not
LastUserMessageWithoutEmotions_AnyUser(messages) ==
  LET C == {i \in 1..Len(messages) : messages[i].type = "user"}
  IN IF C = {} THEN 0 ELSE CHOOSE i \in C : \A j \in C : j <= i

\* index of the most recent user message without emotions, 0 when there is none
LastUserMessageWithoutEmotions(messages) ==
  LET C == {i \in 1..Len(messages) :
              messages[i].type = "user" /\ messages[i].metadata.emotions = "none"}
  IN IF C = {} THEN 0 ELSE CHOOSE i \in C : \A j \in C : j <= i

\* AddEmotions with the message removed and added again at the end of the log
AddEmotions_ReAdded(s, p) ==
  LET idx == LastUserMessageWithoutEmotions(s.messages)
  IN IF idx # 0
     THEN [s EXCEPT !.messages =
             Append(SubSeq(s.messages, 1, idx - 1) \o SubSeq(s.messages, idx + 1, Len(s.messages)),
                    [s.messages[idx] EXCEPT !.metadata.emotions = p.emotions])]
     ELSE s

AddEmotions(s, p) ==
  LET idx == LastUserMessageWithoutEmotions(s.messages)
  IN IF idx # 0
     THEN [s EXCEPT !.messages[idx].metadata.emotions = p.emotions]
     ELSE s

\* {...msg.metadata, ...payload.metadata}: the keys of the payload replace those of the message
UpdateMessageMetadata(s, p) ==
  [s EXCEPT !.messages =
     [i \in 1..Len(s.messages) |->
        IF s.messages[i].id = p.id
        THEN [s.messages[i] EXCEPT !.metadata =
                [k \in DOMAIN NoMeta |-> IF k \in DOMAIN p.metadata
                                         THEN p.metadata[k] ELSE s.messages[i].metadata[k]]]
        ELSE s.messages[i]]]

voiceReducer(s, action) ==
  CASE action.type = "SET_CONNECTION_STATE" ->
         [s EXCEPT !.readyState = action.payload, !.error = "null"]
    [] action.type = "SET_RECORDING" -> [s EXCEPT !.isRecording = action.payload]
    [] action.type = "SET_TTS_PLAYING" -> [s EXCEPT !.isTTSPlaying = action.payload]
    [] action.type = "SET_WAITING_FOR_RESPONSE" ->
         [s EXCEPT !.isWaitingForResponse = action.payload]
    [] action.type = "ADD_MESSAGE" ->
         [s EXCEPT !.messages = Append(s.messages, action.payload)]
    [] action.type = "UPDATE_STREAMING_MESSAGE" -> UpdateStreamingMessage(s, action.payload)
    [] action.type = "FINALIZE_STREAMING_MESSAGE" -> FinalizeStreamingMessage(s, action.payload)
    [] action.type = "UPDATE_MESSAGE_METADATA" -> UpdateMessageMetadata(s, action.payload)
    [] action.type = "ADD_EMOTIONS_TO_LATEST_USER_MESSAGE" -> AddEmotions(s, action.payload)
    [] action.type = "CLEAR_MESSAGES" -> [s EXCEPT !.messages = <<>>]
    [] action.type = "SET_CONNECTION_METADATA" ->
         [s EXCEPT !.connectionMetadata = action.payload]
    [] action.type = "SET_ERROR" -> [s EXCEPT !.error = action.payload]
    [] action.type = "SET_IDLE_WARNING" ->
         [s EXCEPT !.idleWarning =
            IF action.payload.active
            THEN [active |-> TRUE, timeRemaining |-> action.payload.timeRemaining,
                  type |-> action.payload.type]
            ELSE NoIdleWarning]
    [] action.type = "RESET_STATE" -> initialState
    [] OTHER -> s

\* dispatch the actions of a handler one after the other
RECURSIVE dispatchAll(_, _)
dispatchAll(s, actions) ==
  IF actions = <<>> THEN s
  ELSE dispatchAll(voiceReducer(s, Head(actions)), Tail(actions))

(* ------------------- generateMessageId / addMessage ------------------- *)
\* `msg_${Date.now()}_${random}`: r is the random suffix
generateMessageId(r) == <<"msg", clock, r>>

\* Math.random(): the suffix is taken to differ from the suffixes in use at the same clock
\* value; R1 is the suffix of the first id a handler generates, R2 of the second
FreshRnd(r) ==
  /\ \A i \in 1..Len(state.messages) : state.messages[i].id # generateMessageId(r)
  /\ currentStreamingMessageId # generateMessageId(r)
R1 == CHOOSE r \in Rnd : FreshRnd(r) /\ \A q \in Rnd : FreshRnd(q) => r <= q
R2 == CHOOSE r \in Rnd : FreshRnd(r) /\ r # R1 /\ \A q \in Rnd : (FreshRnd(q) /\ q # R1) => r <= q

ClearIdle == [type |-> "SET_IDLE_WARNING", payload |-> NoIdleWarning]

(***************************************************************************)
(* A handler changes several objects at once.  W is the record of all the  *)
(* mutable objects; handlers are functions from W to W, and an action      *)
(* commits the W its handler returns.                                      *)
(***************************************************************************)
World ==
  [ state |-> state, csm |-> currentStreamingMessageId,
    wsRef |-> wsManagerRef, amRef |-> audioManagerRef,
    ws |-> ws, sock |-> sock, am |-> am, call |-> call, hist |-> hist ]

Commit(W) ==
  /\ Len(W.state.messages) <= MaxMsgs      \* the bound on the explored log
  /\ state' = W.state
  /\ currentStreamingMessageId' = W.csm
  /\ wsManagerRef' = W.wsRef
  /\ audioManagerRef' = W.amRef
  /\ ws' = W.ws
  /\ sock' = W.sock
  /\ am' = W.am
  /\ call' = W.call
  /\ hist' = W.hist

dispatch(W, actions) == [W EXCEPT !.state = dispatchAll(W.state, actions)]

addMessage(W, type, content, meta, r) ==
  dispatch(W, << [type |-> "ADD_MESSAGE",
                  payload |-> Message(generateMessageId(r), type, content, meta)] >>)

(* ---------------------------- base handlers --------------------------- *)
\* onStateChange without the second dispatch
onStateChange_KeepsIdleWarning(W, connectionState) ==
  dispatch(W, << [type |-> "SET_CONNECTION_STATE", payload |-> connectionState] >>)

\* wsEvents.onStateChange
onStateChange(W, connectionState) ==
  dispatch(W, << [type |-> "SET_CONNECTION_STATE", payload |-> connectionState], ClearIdle >>)

\* wsEvents.onError
onError(W, message, r) ==
  addMessage(dispatch(W, << [type |-> "SET_ERROR", payload |-> message] >>),
             "error", "Error: " \o message, NoMeta, r)

\* audioEvents.onError
onAudioError(W, message, r) ==
  addMessage(dispatch(W, << [type |-> "SET_ERROR", payload |-> message] >>),
             "error", "Audio Error: " \o message, NoMeta, r)

(* -------------------------- WebSocketManager -------------------------- *)
NewManager ==
  [ connectionState |-> "disconnected", isConnecting |-> FALSE, websocket |-> 0,
    config |-> FALSE, reconnectAttempts |-> 0,
    pendingReconn |-> 0,   \* unsettled promises of connect() calls not made by the session
    timers |-> 0,          \* backoff timers that have not fired yet
    lastDelay |-> 0,       \* delay of the timer scheduled last
    stateMessages |-> <<>> ]  \* state.messages as captured by the wsEvents closures

\* a WebSocket object: its manager, its readyState, and what was sent on it (the session
\* settings, the number of audio frames, the number of other JSON frames)
FreeSocket == [mgr |-> 0, rs |-> "free", settings |-> FALSE, audio |-> 0, json |-> 0]

Sat1(n) == IF n < 1 THEN n + 1 ELSE n

HasFreeSock(W) == \E k \in Socks : W.sock[k].rs = "free"
FreeSock(W) == CHOOSE k \in Socks : W.sock[k].rs = "free" /\ \A j \in Socks : W.sock[j].rs = "free" => k <= j

\* the promise callbacks installed by connect(): on Connected the pending promises resolve,
\* on Error they reject; their timeouts are cleared and isConnecting is reset
settle(W, m, st) ==
  [W EXCEPT !.ws[m].isConnecting = FALSE,
            !.ws[m].pendingReconn = 0,
            !.call = [p \in Calls |->
                        IF W.call[p].pc = "ws_connect" /\ W.call[p].mgr = m
                        THEN [W.call[p] EXCEPT !.pc = IF st = "connected" THEN "ws_resolved"
                                                                          ELSE "ws_rejected",
                                               !.cause = IF st = "connected" THEN @
                                                                             ELSE "ws_error"]
                        ELSE W.call[p]]]

setConnectionState(W, m, st) ==
  IF W.ws[m].connectionState = st THEN W
  ELSE LET W1 == onStateChange([W EXCEPT !.ws[m].connectionState = st], st)
       IN IF st \in {"connected", "error"} THEN settle(W1, m, st) ELSE W1

\* isConnected taking any socket held for a connection
isConnected_HasSocket(W, m) == W.ws[m].websocket # 0

\* isConnected(): state Connected and the socket's readyState is OPEN
isConnected(W, m) ==
  /\ W.ws[m].connectionState = "connected"
  /\ W.ws[m].websocket # 0
  /\ W.sock[W.ws[m].websocket].rs = "open"

\* connect() runs past its two guards
wsConnectProceeds(W, m) ==
  W.ws[m].connectionState # "connected" /\ ~W.ws[m].isConnecting

\* connect(config) up to the returned promise; owner is the session connect() call that
\* awaits the promise, 0 when the backoff timer or another caller made the call
wsConnect(W, m, owner) ==
  IF ~wsConnectProceeds(W, m) THEN W
  ELSE LET k == FreeSock(W)
           W1 == [W EXCEPT !.ws[m].isConnecting = TRUE, !.ws[m].config = TRUE]
           W2 == setConnectionState(W1, m, "connecting")
           W3 == [W2 EXCEPT !.sock[k] = [FreeSocket EXCEPT !.mgr = m, !.rs = "connecting"],
                            !.ws[m].websocket = k]
       IN IF owner = 0
          THEN [W3 EXCEPT !.ws[m].pendingReconn = @ + 1]
          ELSE [W3 EXCEPT !.call[owner].pc = "ws_connect", !.call[owner].mgr = m]

\* disconnect()
wsDisconnect(W, m) ==
  LET k == W.ws[m].websocket
      W1 == [W EXCEPT !.ws[m].isConnecting = FALSE]
      W2 == IF k # 0
            THEN [W1 EXCEPT !.sock[k] = FreeSocket, !.ws[m].websocket = 0,
                            !.hist.clientCloses = IF @ < 3 THEN @ + 1 ELSE @]
            ELSE W1
      W3 == [W2 EXCEPT !.ws[m].config = FALSE, !.ws[m].reconnectAttempts = 0,
                       !.hist.closures[m] = 0, !.hist.maxErr[m] = 0,
                       !.hist.stale[m] = W.ws[m].timers]    \* no clearTimeout
  IN setConnectionState(W3, m, "disconnected")

\* handleOpen without the reset of the attempt counter
handleOpen_KeepsAttempts(W, m) ==
  setConnectionState([W EXCEPT !.hist.closures[m] = 0, !.hist.maxErr[m] = 0], m, "connected")

handleOpen(W, m) ==
  setConnectionState([W EXCEPT !.ws[m].reconnectAttempts = 0,
                               !.hist.closures[m] = 0, !.hist.maxErr[m] = 0],
                     m, "connected")

\* handleError signalling the error before the change of state
handleError_ErrorFirst(W, m, r) ==
  setConnectionState(onError(W, "WebSocket connection error", r), m, "error")

handleError(W, m, r) ==
  onError(setConnectionState(W, m, "error"), "WebSocket connection error", r)

RECURSIVE Pow2(_)
Pow2(n) == IF n = 0 THEN 1 ELSE 2 * Pow2(n - 1)

\* attemptReconnection giving up one attempt late
attemptReconnection_OneMore(W, m, r) ==
  IF W.ws[m].reconnectAttempts > maxReconnectAttempts \/ ~W.ws[m].config
  THEN onError(setConnectionState([W EXCEPT !.hist.maxErr[m] = IF @ < 2 THEN @ + 1 ELSE @],
                                  m, "error"),
               "Maximum reconnection attempts exceeded", r)
  ELSE [W EXCEPT !.ws[m].reconnectAttempts = @ + 1,
                 !.ws[m].lastDelay = reconnectDelay * Pow2(W.ws[m].reconnectAttempts),
                 !.ws[m].timers = @ + 1,
                 !.hist.schedAfterMax = @ \/ W.hist.maxErr[m] > 0]

attemptReconnection(W, m, r) ==
  IF W.ws[m].reconnectAttempts >= maxReconnectAttempts \/ ~W.ws[m].config
  THEN onError(setConnectionState([W EXCEPT !.hist.maxErr[m] = IF @ < 2 THEN @ + 1 ELSE @],
                                  m, "error"),
               "Maximum reconnection attempts exceeded", r)
  ELSE [W EXCEPT !.ws[m].reconnectAttempts = @ + 1,
                 !.ws[m].lastDelay = reconnectDelay * Pow2(W.ws[m].reconnectAttempts),
                 !.ws[m].timers = @ + 1,
                 !.hist.schedAfterMax = @ \/ W.hist.maxErr[m] > 0]

\* the reason text of a close frame of the server
Reason == "rejected"

\* handleClose taking the code 4000 for a network failure
handleClose_Above4000(W, m, code, r) ==
  LET W1 == [W EXCEPT !.ws[m].websocket = 0]
  IN IF code = 1000 THEN setConnectionState(W1, m, "disconnected")
     ELSE IF code > 4000
     THEN onError([setConnectionState(W1, m, "error")
                     EXCEPT !.hist.details = [code |-> code, reason |-> Reason]],
                  "Connection closed: " \o Reason, r)
     ELSE attemptReconnection([W1 EXCEPT !.hist.closures[m] = IF @ < 5 THEN @ + 1 ELSE @], m, r)

handleClose(W, m, code, r) ==
  LET W1 == [W EXCEPT !.ws[m].websocket = 0]
  IN IF code = 1000 THEN setConnectionState(W1, m, "disconnected")
     ELSE IF code >= 4000
     THEN onError([setConnectionState(W1, m, "error")
                     EXCEPT !.hist.details = [code |-> code, reason |-> Reason]],
                  "Connection closed: " \o Reason, r)
     ELSE attemptReconnection([W1 EXCEPT !.hist.closures[m] = IF @ < 5 THEN @ + 1 ELSE @], m, r)

(* ----------------------------- AudioManager --------------------------- *)
\* fields of the object (TRUE = not null) and the devices it acquired
NewAudioManager ==
  [ mediaStream |-> FALSE, audioContext |-> FALSE, ttsAudioContext |-> FALSE,
    micWorkletNode |-> FALSE, ttsWorkletNode |-> FALSE,
    isRecording |-> FALSE, isTTSPlaying |-> FALSE,
    stream |-> "none",      \* microphone stream: none, live, stopped
    ctx |-> "none",         \* capture AudioContext: none, open, closing, closed
    tts |-> "none",         \* playback AudioContext: none, open, closing, closed
    streamStops |-> 0, ctxCloses |-> 0, ttsCloses |-> 0,    \* release calls made
    acquired |-> 0,         \* streams (and pairs of contexts) acquired by initialize()
    bufferQueue |-> << >>,  \* TTSPlaybackProcessor.bufferQueue: lengths of the PCM buffers
    readOffset |-> 0,       \* TTSPlaybackProcessor.readOffset: samples played of the first one
    samplesRemaining |-> 0, \* TTSPlaybackProcessor.samplesRemaining
    workletPlaying |-> FALSE,   \* TTSPlaybackProcessor.isPlaying
    port |-> << >> ]        \* messages of the playback worklet on their way to the main thread

Sat2(n) == IF n < 2 THEN n + 1 ELSE n

\* AudioManager.cleanup(), from its start to the first context it closes
amCleanupSync(W, a) ==
  LET W1 == [W EXCEPT !.am[a].isRecording = FALSE, !.am[a].isTTSPlaying = FALSE,
                      !.am[a].micWorkletNode = FALSE, !.am[a].ttsWorkletNode = FALSE]
  IN IF W1.am[a].mediaStream
     THEN [W1 EXCEPT !.am[a].mediaStream = FALSE, !.am[a].stream = "stopped",
                     !.am[a].streamStops = Sat2(@)]
     ELSE W1

(* ------------------------- cleanup / disconnect ----------------------- *)
\* the rest of cleanup() once AudioManager.cleanup() has returned
cleanupTail(W, p) ==
  LET W1 == [W EXCEPT !.amRef = 0]
      W2 == IF W1.wsRef # 0 THEN [wsDisconnect(W1, W1.wsRef) EXCEPT !.wsRef = 0] ELSE W1
      W3 == dispatch(W2, << [type |-> "SET_RECORDING", payload |-> FALSE],
                            [type |-> "SET_TTS_PLAYING", payload |-> FALSE],
                            [type |-> "SET_WAITING_FOR_RESPONSE", payload |-> FALSE] >>)
      W4 == [W3 EXCEPT !.csm = NullId]
  IN IF p \in SessCalls
     THEN [W4 EXCEPT !.call[p].pc = "rejected"]                    \* throw nextEVIError
     ELSE [dispatch(W4, << [type |-> "RESET_STATE"] >>) EXCEPT !.call[p].pc = "done"]

\* AudioManager.cleanup() rejected: cleanup() and its caller reject, nothing else runs
cleanupThrow(W, p) ==
  [W EXCEPT !.call[p].pc = IF p \in SessCalls THEN "rejected" ELSE "failed",
            !.call[p].err = IF p \in SessCalls THEN @ ELSE "InvalidStateError"]

\* `if (this.ttsAudioContext) await this.ttsAudioContext.close()`; dbl tells whether a
\* close() of a context that is already closing or closed is rejected by the browser
closeTts(W, p, dbl) ==
  LET a == W.call[p].am
  IN IF ~W.am[a].ttsAudioContext THEN cleanupTail(W, p)
     ELSE LET W1 == [W EXCEPT !.am[a].ttsCloses = Sat2(@)]
          IN IF W.am[a].tts = "open"
             THEN [W1 EXCEPT !.am[a].tts = "closing", !.call[p].pc = "cl_tts"]
             ELSE IF dbl = "reject" THEN cleanupThrow(W1, p)
             ELSE [W1 EXCEPT !.call[p].pc = "cl_tts"]

\* `if (this.audioContext) await this.audioContext.close()`
closeCtx(W, p, dbl) ==
  LET a == W.call[p].am
  IN IF ~W.am[a].audioContext THEN closeTts(W, p, dbl)
     ELSE LET W1 == [W EXCEPT !.am[a].ctxCloses = Sat2(@)]
          IN IF W.am[a].ctx = "open"
             THEN [W1 EXCEPT !.am[a].ctx = "closing", !.call[p].pc = "cl_ctx"]
             ELSE IF dbl = "reject" THEN cleanupThrow(W1, p)
             ELSE [W1 EXCEPT !.call[p].pc = "cl_ctx"]

\* cleanup(), up to its first suspension
cleanup(W, p, dbl) ==
  IF W.amRef # 0
  THEN closeCtx(amCleanupSync([W EXCEPT !.call[p].am = W.amRef], W.amRef), p, dbl)
  ELSE cleanupTail(W, p)

\* the catch block of connect() without its cleanup()
connectCatch_NoCleanup(W, c, message, code, cause, r, dbl) ==
  LET W1 == addMessage(dispatch(W, << [type |-> "SET_ERROR", payload |-> message] >>),
                       "error", message, NoMeta, r)
  IN [W1 EXCEPT !.call[c].err = code,
                !.call[c].cause = IF @ = "none" THEN cause ELSE @,
                !.call[c].pc = "rejected"]

\* the catch block of connect(); cause records which step failed
connectCatch(W, c, message, code, cause, r, dbl) ==
  LET W1 == addMessage(dispatch(W, << [type |-> "SET_ERROR", payload |-> message] >>),
                       "error", message, NoMeta, r)
  IN cleanup([W1 EXCEPT !.call[c].err = code,
                        !.call[c].cause = IF @ = "none" THEN cause ELSE @], c, dbl)

TypeErrorCatch(W, c, r, dbl) ==
  connectCatch(W, c, "Connection failed: Cannot read properties of null",
               "CONNECTION_FAILED", "type_error", r, dbl)

(* ------------------------------ connect ------------------------------- *)
\* a connect() or disconnect() invocation: where it stands (pc), the managers it works on,
\* the error it rejected with and the step that failed; for a disconnect(), after records
\* whether connect() had been invoked and solo whether no other disconnect() was running
\* when it was invoked
NewCall ==
  [ pc |-> "idle", am |-> 0, mgr |-> 0, err |-> "none", cause |-> "none",
    after |-> FALSE, solo |-> FALSE ]

\* connect(): validateConfig, the two managers, and initialize() up to its first await
connectStart(W, c, valid, dbl) ==
  IF ~valid
  THEN connectCatch(W, c, "Configuration validation failed", "INVALID_CONFIG", "config", R1, dbl)
  ELSE LET W1 == IF W.wsRef = 0
                 THEN [W EXCEPT !.wsRef = c,
                                !.ws[c] = [NewManager EXCEPT !.stateMessages = W.state.messages]]
                 ELSE W
           W2 == IF W1.amRef = 0
                 THEN [W1 EXCEPT !.amRef = c, !.am[c] = NewAudioManager]
                 ELSE W1
       IN [W2 EXCEPT !.call[c].pc = "init_perm", !.call[c].am = W2.amRef]

\* initialize() caught an error: audioEvents.onError, return false, and connect() throws;
\* cause is mic_denied when the error was a denial of the microphone, audio_init otherwise
initFail(W, c, message, cause, dbl) ==
  connectCatch(onAudioError(W, "Failed to initialize audio: " \o message, R1), c,
               "Failed to initialize audio processing", "AUDIO_INITIALIZATION_FAILED",
               cause, R2, dbl)

\* getUserMedia resolved: the stream and the two contexts are created
gumOk(W, c) ==
  LET a == W.call[c].am
  IN [W EXCEPT !.am[a].mediaStream = TRUE, !.am[a].stream = "live",
               !.am[a].audioContext = TRUE, !.am[a].ctx = "open",
               !.am[a].ttsAudioContext = TRUE, !.am[a].tts = "open",
               !.am[a].acquired = Sat2(@),
               !.call[c].pc = "init_worklet"]

\* sendMessage(message) of the manager: JSON.stringify and websocket.send when connected
wsSendMessage(W, m, type) ==
  IF ~isConnected(W, m) THEN W
  ELSE IF type = "session_settings"
  THEN [W EXCEPT !.sock[W.ws[m].websocket].settings = TRUE, !.hist.settingsSent = TRUE]
  ELSE [W EXCEPT !.sock[W.ws[m].websocket].json = Sat1(@)]

\* sendSessionSettings(): builds the frame and sends it only when connected
sendSessionSettings(W, m) ==
  IF isConnected(W, m) THEN wsSendMessage(W, m, "session_settings") ELSE W

\* sendAudioData sending whenever the manager holds a socket
sendAudioData_AnySocket(W, m) ==
  IF W.ws[m].websocket = 0 THEN W
  ELSE [W EXCEPT !.sock[W.ws[m].websocket].audio = Sat1(@), !.hist.audioSent = TRUE]

\* sendAudioData(audioData): websocket.send when connected
sendAudioData(W, m) ==
  IF ~isConnected(W, m) THEN W
  ELSE [W EXCEPT !.sock[W.ws[m].websocket].audio = Sat1(@), !.hist.audioSent = TRUE]

\* audioEvents.onAudioData: empty data is dropped, the rest goes to the manager of the
\* session when that one is connected
onAudioData(W, empty) ==
  IF empty THEN W
  ELSE IF W.wsRef # 0 /\ isConnected(W, W.wsRef) THEN sendAudioData(W, W.wsRef)
  ELSE W

\* micWorkletNode.port.onmessage: captured audio is passed on while recording
micPortMessage(W, a, empty) ==
  IF W.am[a].isRecording THEN onAudioData(W, empty) ELSE W

\* afterWsConnect without the session_settings frame
afterWsConnect_NoSettings(W, c, dbl) ==
  IF W.amRef = 0 \/ W.wsRef = 0 THEN TypeErrorCatch(W, c, R1, dbl)
  ELSE [W EXCEPT !.call[c].pc = "settings_delay"]

\* connect() after `await wsManagerRef.current.connect(...)`, up to the 500 ms delay
afterWsConnect(W, c, dbl) ==
  IF W.amRef = 0 \/ W.wsRef = 0 THEN TypeErrorCatch(W, c, R1, dbl)
  ELSE [sendSessionSettings(W, W.wsRef) EXCEPT !.call[c].pc = "settings_delay"]

\* connect() once initialize() returned true, up to the next suspension
afterInitialize(W, c, dbl) ==
  IF W.wsRef = 0 THEN TypeErrorCatch(W, c, R1, dbl)
  ELSE IF wsConnectProceeds(W, W.wsRef) THEN wsConnect(W, W.wsRef, c)
  ELSE afterWsConnect(W, c, dbl)

\* connect() after the delay: start(), SET_RECORDING and the 'connected' message
afterSettingsDelay(W, c, startOk, dbl) ==
  IF W.amRef = 0 THEN TypeErrorCatch(W, c, R1, dbl)
  ELSE LET a == W.amRef
       IN IF ~W.am[a].audioContext \/ ~W.am[a].mediaStream
          THEN connectCatch(W, c, "Failed to start audio capture",
                            "AUDIO_INITIALIZATION_FAILED", "audio_start", R1, dbl)
          ELSE IF ~startOk
          THEN connectCatch(onAudioError(W, "Failed to start audio processing", R1), c,
                            "Failed to start audio capture", "AUDIO_INITIALIZATION_FAILED",
                            "audio_start", R2, dbl)
          ELSE LET W1 == [W EXCEPT !.am[a].micWorkletNode = TRUE,
                                   !.am[a].ttsWorkletNode = TRUE,
                                   !.am[a].isRecording = TRUE]
                   W2 == dispatch(W1, << [type |-> "SET_RECORDING", payload |-> TRUE] >>)
               IN [addMessage(W2, "system", "Connected to NextEVI. Start speaking!", NoMeta, R1)
                     EXCEPT !.call[c].pc = "done"]

(* ----------------------- wsEvents: server events ---------------------- *)
onTranscription(W, result) ==
  LET W1 == IF result.transcript # "" THEN dispatch(W, << ClearIdle >>) ELSE W
  IN IF result.isFinal /\ result.transcript # ""
     THEN dispatch(addMessage(W1, "user", result.transcript,
                              [NoMeta EXCEPT !.confidence = result.confidence,
                                             !.isFinal = TRUE], R1),
                   << [type |-> "SET_WAITING_FOR_RESPONSE", payload |-> TRUE] >>)
     ELSE IF result.transcript # ""
     THEN dispatch(W1, << [type |-> "UPDATE_STREAMING_MESSAGE",
                           payload |-> [content |-> result.transcript, type |-> "user"]] >>)
     ELSE W1

\* onLLMChunk without its last dispatch
onLLMChunk_KeepsWaiting(W, chunk) ==
  IF chunk.isFinal
  THEN IF W.csm # NullId
       THEN [dispatch(W, << [type |-> "FINALIZE_STREAMING_MESSAGE",
                             payload |-> [id |-> W.csm, content |-> chunk.content]] >>)
               EXCEPT !.csm = NullId]
       ELSE addMessage(W, "assistant", chunk.content, [NoMeta EXCEPT !.isFinal = TRUE], R1)
  ELSE LET W1 == IF W.csm = NullId THEN [W EXCEPT !.csm = generateMessageId(R1)] ELSE W
       IN dispatch(W1, << [type |-> "UPDATE_STREAMING_MESSAGE",
                           payload |-> [content |-> chunk.content, type |-> "assistant"]] >>)

onLLMChunk(W, chunk) ==
  IF chunk.isFinal
  THEN LET W1 == IF W.csm # NullId
                 THEN [dispatch(W, << [type |-> "FINALIZE_STREAMING_MESSAGE",
                                       payload |-> [id |-> W.csm, content |-> chunk.content]] >>)
                         EXCEPT !.csm = NullId]
                 ELSE addMessage(W, "assistant", chunk.content,
                                 [NoMeta EXCEPT !.isFinal = TRUE], R1)
       IN dispatch(W1, << [type |-> "SET_WAITING_FOR_RESPONSE", payload |-> FALSE] >>)
  ELSE LET W1 == IF W.csm = NullId THEN [W EXCEPT !.csm = generateMessageId(R1)] ELSE W
       IN dispatch(W1, << [type |-> "UPDATE_STREAMING_MESSAGE",
                           payload |-> [content |-> chunk.content, type |-> "assistant"]] >>)

onEmotion(W, emotions) ==
  dispatch(W, << [type |-> "ADD_EMOTIONS_TO_LATEST_USER_MESSAGE",
                  payload |-> [emotions |-> emotions]] >>)

onConnectionMetadata(W, metadata) ==
  dispatch(W, << [type |-> "SET_CONNECTION_METADATA", payload |-> metadata] >>)

onInterruption(W) == dispatch(W, << [type |-> "SET_TTS_PLAYING", payload |-> FALSE] >>)

onSystemMessage(W, message) ==
  addMessage(W, "system", message.content,
             [NoMeta EXCEPT !.messageType = message.messageType], R1)

\* index of the most recent user message of a log, 0 when there is none
LastUserMessage(messages) ==
  LET C == {i \in 1..Len(messages) : messages[i].type = "user"}
  IN IF C = {} THEN 0 ELSE CHOOSE i \in C : \A j \in C : j <= i

\* the transcripts of turn_complete frames: those of the conversation, and one with a
\* leading blank
TurnTranscripts == Text \cup {" a"}

\* String.prototype.trim on the transcripts of the model
trim(s) == IF s = " a" THEN "a" ELSE s

\* reads state.messages of the render whose wsEvents were given to the manager m
onTurnComplete(W, m, transcript) ==
  LET messages == W.ws[m].stateMessages
      idx == LastUserMessage(messages)
  IN IF transcript # "" /\ Len(messages) > 0 /\ idx # 0
        /\ messages[idx].content = trim(transcript)
     THEN addMessage(W, "user", messages[idx].content,
                     [messages[idx].metadata EXCEPT !.turnComplete = TRUE], R1)
     ELSE W

\* the values of time_remaining in idle_warning frames (0: missing) and their decimal form
TimeRemaining == {0, 5, 30}
Decimal(n) == CASE n = 0 -> "0" [] n = 5 -> "5" [] n = 30 -> "30"

\* the values of warning_type in idle_warning frames ("none": missing)
WarningTypes == {"none", "warning", "final_warning"}

\* onIdleWarning storing every warning as an ordinary one
onIdleWarning_TypeLost(W, warning) ==
  LET W1 == dispatch(W, << [type |-> "SET_IDLE_WARNING",
                            payload |-> [active |-> TRUE,
                                         timeRemaining |-> warning.timeRemaining,
                                         type |-> "warning"]] >>)
  IN addMessage(W1, "warning",
                IF warning.warningType = "final_warning"
                THEN "Final warning: Connection will end in "
                       \o Decimal(warning.timeRemaining) \o " seconds"
                ELSE "Idle warning: " \o Decimal(warning.timeRemaining) \o " seconds remaining",
                [NoMeta EXCEPT !.messageType = IF warning.warningType = "final_warning"
                                               THEN "hangup" ELSE "warning"], R1)

onIdleWarning(W, warning) ==
  LET W1 == dispatch(W, << [type |-> "SET_IDLE_WARNING",
                            payload |-> [active |-> TRUE,
                                         timeRemaining |-> warning.timeRemaining,
                                         type |-> warning.warningType]] >>)
  IN addMessage(W1, "warning",
                IF warning.warningType = "final_warning"
                THEN "Final warning: Connection will end in "
                       \o Decimal(warning.timeRemaining) \o " seconds"
                ELSE "Idle warning: " \o Decimal(warning.timeRemaining) \o " seconds remaining",
                [NoMeta EXCEPT !.messageType = IF warning.warningType = "final_warning"
                                               THEN "hangup" ELSE "warning"], R1)

\* useVoiceIdleTimeout: what the hook derives from the idle-warning snapshot
useVoiceIdleTimeout(s) ==
  [ hasIdleWarning |-> s.idleWarning.active,
    timeRemaining |-> s.idleWarning.timeRemaining,
    warningType |-> s.idleWarning.type,
    isFinalWarning |-> s.idleWarning.type = "final_warning" ]

\* the contents of tts_chunk frames: none, base64 of one PCM16 sample, of three samples, of
\* three bytes, text that is not base64, white space (which atob skips)
TtsContent == {"", "AAA=", "AAAAAAAA", "AAAA", "!", " "}

\* base64ToInt16Array: atob throws on text that is not base64 and new Int16Array(buffer)
\* throws on a buffer of odd length; otherwise the number of PCM samples decoded
base64ToInt16Array(base64) ==
  CASE base64 = "AAA=" -> [throws |-> FALSE, length |-> 1]
    [] base64 = "AAAAAAAA" -> [throws |-> FALSE, length |-> 3]
    [] base64 \in {"", " "} -> [throws |-> FALSE, length |-> 0]
    [] OTHER -> [throws |-> TRUE, length |-> 0]

\* workletOnMessage whose clear message only empties the queue
workletOnMessage_QueueOnly(W, a, data) ==
  IF data.type = "clear"
  THEN [W EXCEPT !.am[a].bufferQueue = << >>, !.am[a].workletPlaying = FALSE]
  ELSE [W EXCEPT !.am[a].bufferQueue = Append(@, data.length),
                 !.am[a].samplesRemaining = @ + data.length]

\* port.onmessage of TTSPlaybackProcessor: a clear message resets the processor, any other
\* message is a buffer of samples and is queued.  A message posted to the worklet is handled
\* in the order posted; the model handles it in the step that posts it
workletOnMessage(W, a, data) ==
  IF data.type = "clear"
  THEN [W EXCEPT !.am[a].bufferQueue = << >>, !.am[a].readOffset = 0,
                 !.am[a].samplesRemaining = 0, !.am[a].workletPlaying = FALSE]
  ELSE [W EXCEPT !.am[a].bufferQueue = Append(@, data.length),
                 !.am[a].samplesRemaining = @ + data.length]

\* AudioManager.playTTSChunk: posts the decoded samples to the playback worklet
playTTSChunk(W, a, audioData) ==
  IF ~W.am[a].ttsWorkletNode THEN W
  ELSE IF base64ToInt16Array(audioData).throws THEN W
  ELSE workletOnMessage(W, a, [type |-> "pcm", length |-> base64ToInt16Array(audioData).length])

\* AudioManager.clearTTSBuffer: posts a clear message when the playback worklet exists
clearTTSBuffer(W, a) ==
  IF W.am[a].ttsWorkletNode THEN workletOnMessage(W, a, [type |-> "clear"]) ELSE W

\* wsEvents.onTTSChunk: a chunk with content goes to the AudioManager of the session
onTTSChunk(W, chunk) ==
  IF W.amRef # 0 /\ chunk.content # "" THEN playTTSChunk(W, W.amRef, chunk.content) ELSE W

\* the samples one process callback writes (outputChannel.length, 128 in a browser)
RenderQuantum == 2

\* the copy loop of process: one sample of the first buffer at a time, the buffer leaving the
\* queue when readOffset reaches its length; p is the processor, n the room left in the output
RECURSIVE render(_, _)
render(p, n) ==
  IF n = 0 \/ p.bufferQueue = << >> THEN p
  ELSE LET q == [p EXCEPT !.readOffset = @ + 1, !.samplesRemaining = @ - 1]
       IN IF q.readOffset >= Head(q.bufferQueue)
          THEN render([q EXCEPT !.bufferQueue = Tail(@), !.readOffset = 0], n - 1)
          ELSE render(q, n - 1)

\* TTSPlaybackProcessor.process, one callback of the audio thread
process(W, a) ==
  IF W.am[a].samplesRemaining = 0
  THEN IF W.am[a].workletPlaying
       THEN [W EXCEPT !.am[a].workletPlaying = FALSE,
                      !.am[a].port = Append(@, "playbackStopped"),
                      !.hist.lastSignal = "playbackStopped"]
       ELSE W
  ELSE LET W1 == IF W.am[a].workletPlaying THEN W
                 ELSE [W EXCEPT !.am[a].workletPlaying = TRUE,
                                !.am[a].port = Append(@, "playbackStarted"),
                                !.hist.lastSignal = "playbackStarted"]
       IN [W1 EXCEPT !.am[a] = render(@, RenderQuantum)]

\* audioEvents.onTTSPlayback
onTTSPlayback(W, isPlaying) ==
  dispatch(W, << [type |-> "SET_TTS_PLAYING", payload |-> isPlaying] >>)

\* ttsWorkletNode.port.onmessage: the oldest message of the playback worklet arrives
ttsPortMessage(W, a) ==
  LET isPlaying == Head(W.am[a].port) = "playbackStarted"
  IN onTTSPlayback([W EXCEPT !.am[a].port = Tail(@), !.am[a].isTTSPlaying = isPlaying],
                   isPlaying)

(* ------------------- handleMessage / routeMessage --------------------- *)
\* routeMessage taking a frame of unknown type for an error frame
routeMessage_UnknownIsError(W, m, message) ==
  CASE message.type = "transcription" ->
         onTranscription(W, [transcript |-> message.transcript, isFinal |-> message.is_final,
                             confidence |-> message.confidence])
    [] message.type = "tts_chunk" -> onTTSChunk(W, [content |-> message.content])
    [] message.type = "llm_response_chunk" ->
         onLLMChunk(W, [content |-> message.content, isFinal |-> message.is_final])
    [] message.type = "emotion_update" ->
         IF message.top_emotions # "none" THEN onEmotion(W, message.top_emotions) ELSE W
    [] message.type = "connection_metadata" -> onConnectionMetadata(W, message.connection_id)
    [] message.type = "error" -> onError(W, message.error_message, R1)
    [] message.type = "status" -> W
    [] message.type = "tts_interruption" -> onInterruption(W)
    [] message.type = "system_message" ->
         onSystemMessage(W, [content |-> message.content, messageType |-> message.message_type])
    [] message.type = "turn_complete" -> onTurnComplete(W, m, message.transcript)
    [] message.type = "idle_warning" ->
         onIdleWarning(W, [timeRemaining |-> message.time_remaining,
                           warningType |-> IF message.warning_type = "none"
                                           THEN "warning" ELSE message.warning_type])
    [] OTHER -> onError(W, "Unknown server error", R1)

\* routeMessage: the switch on message.type; the default case only logs
routeMessage(W, m, message) ==
  CASE message.type = "transcription" ->
         onTranscription(W, [transcript |-> message.transcript, isFinal |-> message.is_final,
                             confidence |-> message.confidence])
    [] message.type = "tts_chunk" -> onTTSChunk(W, [content |-> message.content])
    [] message.type = "llm_response_chunk" ->
         onLLMChunk(W, [content |-> message.content, isFinal |-> message.is_final])
    [] message.type = "emotion_update" ->
         IF message.top_emotions # "none" THEN onEmotion(W, message.top_emotions) ELSE W
    [] message.type = "connection_metadata" -> onConnectionMetadata(W, message.connection_id)
    [] message.type = "error" -> onError(W, message.error_message, R1)
    [] message.type = "status" -> W
    [] message.type = "tts_interruption" -> onInterruption(W)
    [] message.type = "system_message" ->
         onSystemMessage(W, [content |-> message.content, messageType |-> message.message_type])
    [] message.type = "turn_complete" -> onTurnComplete(W, m, message.transcript)
    [] message.type = "idle_warning" ->
         onIdleWarning(W, [timeRemaining |-> message.time_remaining,
                           warningType |-> IF message.warning_type = "none"
                                           THEN "warning" ELSE message.warning_type])
    [] OTHER -> W

\* JSON.parse(event.data).  The socket has binaryType 'arraybuffer': the data of a binary
\* frame is an ArrayBuffer, JSON.parse reads its string form "[object ArrayBuffer]" and throws
JSONparse(data) == IF data.binary THEN "error" ELSE data.json

\* handleMessage: JSON.parse and routeMessage inside one try/catch.  data.json tells what
\* JSON.parse does with the text: it throws ("error"), returns null ("null": reading
\* message.type then throws), or returns an object ("object")
handleMessage(W, m, data) ==
  IF JSONparse(data) = "object" THEN routeMessage(W, m, data.message) ELSE W

(* ------------------------------ scheduling ---------------------------- *)
\* a settled promise has a continuation waiting: it runs before any other task
MicroPending == \E p \in Calls : call[p].pc \in {"ws_resolved", "ws_rejected"}
\* an error event was fired on a socket: its close event follows in the same task
ErrPending == \E k \in Socks : sock[k].rs = "errored"
TaskReady == ~MicroPending /\ ~ErrPending

\* code is a number the handler met: the close code of a close event, the index of the
\* message an emotion batch or a turn_complete frame is about, the time_remaining of an
\* idle_warning frame, 0 for every other handler
\* arg is the text the handler met: the warning_type of an idle_warning frame
Ev(op, p) == [op |-> op, p |-> p, code |-> 0, arg |-> ""]

Step(op, W) == Commit(W) /\ ev' = Ev(op, 0) /\ UNCHANGED clock

(* ------------------------------- Init --------------------------------- *)
\* nothing observed yet
NewHist ==
  [ closures |-> [m \in Mgrs |-> 0],     \* consecutive abnormal closures of a manager
    maxErr |-> [m \in Mgrs |-> 0],       \* 'maximum reconnection attempts' errors signalled
    schedAfterMax |-> FALSE,             \* a reconnection was scheduled after that error
    clientCloses |-> 0,                  \* close(1000) calls made by disconnect()
    details |-> [code |-> 0, reason |-> ""],   \* details of the error signalled last by handleClose
    stale |-> [m \in Mgrs |-> 0],        \* pending backoff timers scheduled before a disconnect()
    settingsSent |-> FALSE,              \* a session_settings frame was sent
    audioSent |-> FALSE,                 \* an audio frame was sent
    lastSignal |-> "none" ]              \* the message the playback worklet posted last

Init ==
  /\ state = initialState
  /\ currentStreamingMessageId = NullId
  /\ wsManagerRef = 0
  /\ audioManagerRef = 0
  /\ ws = [m \in Mgrs |-> NewManager]
  /\ sock = [k \in Socks |-> FreeSocket]
  /\ am = [a \in Ams |-> NewAudioManager]
  /\ call = [p \in Calls |-> NewCall]
  /\ clock = 0
  /\ ev = Ev("init", 0)
  /\ hist = NewHist

(* ------------------------- actions: the caller ------------------------ *)
Tick == clock < MaxClock /\ clock' = clock + 1 /\ ev' = Ev("tick", 0)
        /\ UNCHANGED <<state, currentStreamingMessageId, wsManagerRef, audioManagerRef,
                       ws, sock, am, call, hist>>

\* what close() does on an AudioContext that is already closing or closed: the Web Audio
\* standard has the promise rejected with InvalidStateError
Dbl == {"reject"}

Connect(c) ==
  /\ TaskReady /\ call[c].pc = "idle"
  /\ \A b \in ConnCalls : b < c => call[b].pc # "idle"
  /\ \E valid \in BOOLEAN, dbl \in Dbl :
       /\ Commit(connectStart(World, c, valid, dbl))
       /\ ev' = Ev("connect", c)
  /\ UNCHANGED clock

\* connect() invoked while the session is connected or while a connect() is running
ConnectAgain(c) ==
  /\ TaskReady /\ call[c].pc = "idle"
  /\ \/ state.readyState = "connected"
     \/ \E b \in ConnCalls : call[b].pc \notin {"idle", "done", "rejected"}
  /\ \E valid \in BOOLEAN, dbl \in Dbl :
       /\ Commit(connectStart(World, c, valid, dbl))
       /\ ev' = Ev("connect", c)
  /\ UNCHANGED clock

Disconnect(d) ==
  /\ TaskReady /\ call[d].pc = "idle"
  /\ \A b \in DiscCalls : b < d => call[b].pc # "idle"
  /\ \E dbl \in Dbl :
       /\ Commit(cleanup([World EXCEPT
                            !.call[d].after = \E c \in ConnCalls : call[c].pc # "idle",
                            !.call[d].solo = \A e \in DiscCalls :
                                               call[e].pc \in {"idle", "done", "failed"}],
                         d, dbl))
       /\ ev' = Ev("disconnect", d)
  /\ UNCHANGED clock

\* clearMessages resetting the whole state
clearMessages_Resets(W) == dispatch(W, << [type |-> "RESET_STATE"] >>)

\* clearMessages()
clearMessages(W) == dispatch(W, << [type |-> "CLEAR_MESSAGES"] >>)

ClearMessages ==
  /\ TaskReady
  /\ Step("clearMessages", clearMessages(World))

SendMessage ==
  /\ TaskReady
  /\ \E content \in Text \ {""} :
       /\ Commit(addMessage(World, "user", content, NoMeta, R1))
       /\ ev' = Ev("sendMessage", 0)
  /\ UNCHANGED clock

(* ------------------- actions: connect() continuations ----------------- *)
\* checkMicrophonePermission() resolved
InitPermission(c) ==
  /\ TaskReady /\ call[c].pc = "init_perm"
  /\ \E status \in {"granted", "denied"}, dbl \in Dbl :
       /\ Commit(IF status = "denied"
                 THEN initFail(World, c, "Microphone access denied", "mic_denied", dbl)
                 ELSE [World EXCEPT !.call[c].pc = "init_gum"])
       /\ ev' = Ev("initPermission", c)
  /\ UNCHANGED clock

\* getUserMedia() settled
InitGetUserMedia(c) ==
  /\ TaskReady /\ call[c].pc = "init_gum"
  /\ \E res \in {"stream", "NotAllowedError", "NotFoundError"}, dbl \in Dbl :
       /\ Commit(IF res = "stream" THEN gumOk(World, c)
                 ELSE IF res = "NotAllowedError"
                 THEN initFail(World, c, "Permission denied", "mic_denied", dbl)
                 ELSE initFail(World, c, "Requested device not found", "audio_init", dbl))
       /\ ev' = Ev("initGetUserMedia", c)
  /\ UNCHANGED clock

\* loadWorkletProcessors() settled; on success connect() goes on to the transport
InitWorklet(c) ==
  /\ TaskReady /\ call[c].pc = "init_worklet"
  /\ \E ok \in BOOLEAN, dbl \in Dbl :
       /\ ok /\ wsManagerRef # 0 /\ wsConnectProceeds(World, wsManagerRef) => HasFreeSock(World)
       /\ Commit(IF ok THEN afterInitialize(World, c, dbl)
                 ELSE initFail(World, c, "worklet", "audio_init", dbl))
       /\ ev' = Ev("initWorklet", c)
  /\ UNCHANGED clock

\* the promise of WebSocketManager.connect() resolved
ConnResolved(c) ==
  /\ call[c].pc = "ws_resolved"
  /\ \E dbl \in Dbl :
       /\ Commit(afterWsConnect(World, c, dbl))
       /\ ev' = Ev("connResolved", c)
  /\ UNCHANGED clock

\* the promise of WebSocketManager.connect() rejected
ConnRejected(c) ==
  /\ call[c].pc = "ws_rejected"
  /\ \E dbl \in Dbl :
       /\ Commit(connectCatch(World, c,
                              IF call[c].cause = "ws_timeout" THEN "Connection timeout"
                                                              ELSE "Connection failed",
                              "CONNECTION_FAILED", "ws_error", R1, dbl))
       /\ ev' = Ev("connRejected", c)
  /\ UNCHANGED clock

\* the 500 ms delay after the session settings elapsed
SettingsDelayDone(c) ==
  /\ TaskReady /\ call[c].pc = "settings_delay"
  /\ \E startOk \in BOOLEAN, dbl \in Dbl :
       /\ Commit(afterSettingsDelay(World, c, startOk, dbl))
       /\ ev' = Ev("settingsDelayDone", c)
  /\ UNCHANGED clock

\* the capture worklet of the audio manager a posts a buffer of microphone audio
MicAudioData(a) ==
  /\ TaskReady
  /\ am[a].micWorkletNode /\ am[a].ctx = "open"
  /\ \E empty \in BOOLEAN : Commit(micPortMessage(World, a, empty))
  /\ ev' = Ev("audioData", a)
  /\ UNCHANGED clock

(* --------------------- actions: cleanup continuations ----------------- *)
\* audioContext.close() resolved for the call p
CtxClosed(p) ==
  /\ TaskReady /\ call[p].pc = "cl_ctx"
  /\ \E dbl \in Dbl :
       LET a == call[p].am
       IN Commit(closeTts([World EXCEPT !.am[a].audioContext = FALSE, !.am[a].ctx = "closed"],
                          p, dbl))
  /\ ev' = Ev("ctxClosed", p)
  /\ UNCHANGED clock

\* ttsAudioContext.close() resolved for the call p
TtsClosed(p) ==
  /\ TaskReady /\ call[p].pc = "cl_tts"
  /\ LET a == call[p].am
     IN Commit(cleanupTail([World EXCEPT !.am[a].ttsAudioContext = FALSE,
                                         !.am[a].tts = "closed"], p))
  /\ ev' = Ev("ttsClosed", p)
  /\ UNCHANGED clock

(* ------------------------ actions: timers ----------------------------- *)
\* the 10 s timeout of the promise awaited by the session connect() c
ConnectTimeout(c) ==
  /\ TaskReady /\ call[c].pc = "ws_connect"
  /\ Commit([World EXCEPT !.ws[call[c].mgr].isConnecting = FALSE,
                          !.call[c].pc = "ws_rejected", !.call[c].cause = "ws_timeout"])
  /\ ev' = Ev("connectTimeout", c)
  /\ UNCHANGED clock

\* the 10 s timeout of a promise created by a reconnection
ReconnectTimeout(m) ==
  /\ TaskReady /\ ws[m].pendingReconn > 0
  /\ Commit([World EXCEPT !.ws[m].isConnecting = FALSE, !.ws[m].pendingReconn = @ - 1])
  /\ ev' = Ev("reconnectTimeout", m)
  /\ UNCHANGED clock

\* a backoff timer of attemptReconnection fires; old tells whether it is one that was
\* scheduled before the last disconnect()
ReconnectTimer(m) ==
  /\ TaskReady /\ ws[m].timers > 0
  /\ ws[m].config /\ wsConnectProceeds(World, m) => HasFreeSock(World)
  /\ \E old \in BOOLEAN :
       /\ IF old THEN hist.stale[m] > 0 ELSE ws[m].timers > hist.stale[m]
       /\ LET W1 == [World EXCEPT !.ws[m].timers = @ - 1,
                                  !.hist.stale[m] = IF old THEN @ - 1 ELSE @]
          IN Commit(IF W1.ws[m].config THEN wsConnect(W1, m, 0) ELSE W1)
  /\ ev' = Ev("reconnectTimer", m)
  /\ UNCHANGED clock

(* ------------- actions: calls on a WebSocketManager ------------------- *)
\* connect(config) called on the manager m by a caller that holds it
WsConnectCall(m) ==
  /\ TaskReady /\ ws[m].timers <= MaxStale /\ ws[m].pendingReconn <= MaxStale
  /\ wsConnectProceeds(World, m) => HasFreeSock(World)
  /\ Commit(wsConnect(World, m, 0))
  /\ ev' = Ev("wsConnect", m)
  /\ UNCHANGED clock

\* disconnect() called on the manager m
WsDisconnectCall(m) ==
  /\ TaskReady /\ ws[m].timers <= MaxStale /\ ws[m].pendingReconn <= MaxStale
  /\ Commit(wsDisconnect(World, m))
  /\ ev' = Ev("wsDisconnect", m)
  /\ UNCHANGED clock

\* one of the three send methods called on the manager m
WsSendCall(m) ==
  /\ TaskReady
  /\ \E what \in {"audio", "text", "session_settings"} :
       Commit(IF what = "audio" THEN sendAudioData(World, m)
              ELSE IF what = "text" THEN wsSendMessage(World, m, what)
              ELSE sendSessionSettings(World, m))
  /\ ev' = Ev("wsSend", m)
  /\ UNCHANGED clock

(* --------------------- actions: socket events ------------------------- *)
SocketOpen(k) ==
  /\ TaskReady /\ sock[k].rs = "connecting"
  /\ Commit(handleOpen([World EXCEPT !.sock[k].rs = "open"], sock[k].mgr))
  /\ ev' = Ev("open", sock[k].mgr)
  /\ UNCHANGED clock

\* the connection failed: the error event, to be followed by the close event with code 1006
SocketError(k) ==
  /\ TaskReady /\ sock[k].rs \in {"connecting", "open"}
  \* the error event, the rejection it causes and its close event append up to three
  \* messages: a failure is explored when the bounded log has room for them
  /\ Len(state.messages) + 3 <= MaxMsgs
  /\ Commit(handleError([World EXCEPT !.sock[k].rs = "errored"], sock[k].mgr, R1))
  /\ ev' = Ev("error", sock[k].mgr)
  /\ UNCHANGED clock

CleanCloseCodes == {1000, 1001, 4000}

\* the close event: after an error event with code 1006, otherwise a close frame of the server
SocketClose(k) ==
  /\ ~MicroPending
  /\ \E code \in CleanCloseCodes \cup {1006} :
       /\ \/ sock[k].rs = "errored" /\ code = 1006
          \/ sock[k].rs = "open" /\ code \in CleanCloseCodes /\ ~ErrPending
       /\ Commit(handleClose([World EXCEPT !.sock[k] = FreeSocket], sock[k].mgr, code, R1))
       /\ ev' = [Ev("close", sock[k].mgr) EXCEPT !.code = code]
  /\ UNCHANGED clock

\* the close event of a socket that never opened, with no error event before it (the
\* runtime reports the failed handshake by the close event alone)
SocketCloseEarly(k) ==
  /\ TaskReady /\ sock[k].rs = "connecting"
  /\ Commit(handleClose([World EXCEPT !.sock[k] = FreeSocket], sock[k].mgr, 1006, R1))
  /\ ev' = [Ev("closeEarly", sock[k].mgr) EXCEPT !.code = 1006]
  /\ UNCHANGED clock

(* ------------------ actions: frames of the server --------------------- *)
\* a text frame is delivered on an open socket: handleMessage, routeMessage, the handler
Delivers(k) == TaskReady /\ sock[k].rs = "open"

WsTranscription(k) ==
  /\ Delivers(k)
  /\ \E transcript \in Text, isFinal \in BOOLEAN, confidence \in Conf :
       /\ Commit(onTranscription(World, [transcript |-> transcript, isFinal |-> isFinal,
                                         confidence |-> confidence]))
       /\ ev' = Ev("transcription", 0)
  /\ UNCHANGED clock

WsLLMChunk(k) ==
  /\ Delivers(k)
  /\ \E content \in Text, isFinal \in BOOLEAN :
       /\ Commit(onLLMChunk(World, [content |-> content, isFinal |-> isFinal]))
       /\ ev' = Ev("llm", 0)
  /\ UNCHANGED clock

WsEmotion(k) ==
  /\ Delivers(k)
  /\ Step("emotion", onEmotion(World, "joy"))

WsConnectionMetadata(k) ==
  /\ Delivers(k)
  /\ Step("metadata", onConnectionMetadata(World, "conn_1"))

WsServerError(k) ==
  /\ Delivers(k)
  /\ Step("serverError", onError(World, "Unknown server error", R1))

WsInterruption(k) ==
  /\ Delivers(k)
  /\ Step("interruption", onInterruption(World))

WsSystemMessage(k) ==
  /\ Delivers(k)
  /\ Step("system", onSystemMessage(World, [content |-> "a", messageType |-> "initial"]))

\* a turn_complete frame is delivered; ev records the index of the most recent user
\* message of the log when its content is the transcript of the frame, 0 otherwise
WsTurnComplete(k) ==
  /\ Delivers(k)
  /\ \E transcript \in TurnTranscripts :
       /\ Commit(handleMessage(World, sock[k].mgr,
                               [binary |-> FALSE, json |-> "object",
                                message |-> [type |-> "turn_complete",
                                             transcript |-> transcript]]))
       /\ ev' = [Ev("turnComplete", sock[k].mgr)
                  EXCEPT !.code =
                    LET idx == LastUserMessage(state.messages)
                    IN IF transcript # "" /\ idx # 0
                          /\ state.messages[idx].content = trim(transcript)
                       THEN idx ELSE 0]
  /\ UNCHANGED clock

\* an idle_warning frame is delivered; ev records its time_remaining and warning_type
WsIdleWarning(k) ==
  /\ Delivers(k)
  /\ \E n \in TimeRemaining, warningType \in WarningTypes :
       /\ Commit(handleMessage(World, sock[k].mgr,
                               [binary |-> FALSE, json |-> "object",
                                message |-> [type |-> "idle_warning", time_remaining |-> n,
                                             warning_type |-> warningType]]))
       /\ ev' = [Ev("idleWarning", sock[k].mgr) EXCEPT !.code = n, !.arg = warningType]
  /\ UNCHANGED clock

\* text frames that no case of routeMessage takes: not JSON, the JSON null, an object with
\* an unknown type tag, an object without a type tag
StrayFrames ==
  { [binary |-> FALSE, json |-> "error"], [binary |-> FALSE, json |-> "null"],
    [binary |-> FALSE, json |-> "object", message |-> [type |-> "pong"]],
    [binary |-> FALSE, json |-> "object", message |-> [type |-> "undefined"]] }

\* the top_emotions of emotion_update frames: missing or empty, one emotion, another
TopEmotions == {"none", "joy", "anger"}

\* an emotion_update frame is delivered; ev records whether it carried emotions and the
\* index of the most recent user message without emotions at that moment
WsEmotionUpdate(k) ==
  /\ Delivers(k)
  /\ \E top \in TopEmotions :
       /\ Commit(handleMessage(World, sock[k].mgr,
                               [binary |-> FALSE, json |-> "object",
                                message |-> [type |-> "emotion_update", top_emotions |-> top]]))
       /\ ev' = [Ev(IF top = "none" THEN "emotionEmpty" ELSE "emotionBatch", sock[k].mgr)
                  EXCEPT !.code = LastUserMessageWithoutEmotions(state.messages)]
  /\ UNCHANGED clock

\* a binary frame is delivered on an open socket
WsBinaryFrame(k) ==
  /\ Delivers(k)
  /\ Commit(handleMessage(World, sock[k].mgr, [binary |-> TRUE]))
  /\ ev' = Ev("binaryFrame", sock[k].mgr)
  /\ UNCHANGED clock

\* a tts_chunk frame is delivered while the queue of the playback worklet has room
WsTTSChunk(k) ==
  /\ Delivers(k)
  /\ \A a \in Ams : Len(am[a].bufferQueue) < MaxQueue /\ am[a].samplesRemaining > -MaxQueue
  /\ \E content \in TtsContent :
       /\ Commit(handleMessage(World, sock[k].mgr,
                               [binary |-> FALSE, json |-> "object",
                                message |-> [type |-> "tts_chunk", content |-> content]]))
       /\ ev' = Ev("ttsChunk", sock[k].mgr)
  /\ UNCHANGED clock

\* the audio thread runs the playback worklet of an open playback context
WorkletProcess(a) ==
  /\ am[a].tts = "open" /\ am[a].ttsWorkletNode
  /\ Len(am[a].port) < MaxQueue
  /\ Commit(process(World, a))
  /\ ev' = Ev("process", a)
  /\ UNCHANGED clock

\* clearTTSBuffer() called on the audio manager a by a caller that holds it; ev records
\* the samplesRemaining of the playback worklet at the call
AmClearCall(a) ==
  /\ TaskReady
  /\ \E c \in ConnCalls : call[c].am = a
  /\ Commit(clearTTSBuffer(World, a))
  /\ ev' = [Ev("clearTTS", a) EXCEPT !.code = am[a].samplesRemaining]
  /\ UNCHANGED clock

\* a message of the playback worklet reaches the main thread
TtsPortMessage(a) ==
  /\ TaskReady
  /\ am[a].port # << >>
  /\ Commit(ttsPortMessage(World, a))
  /\ ev' = Ev("ttsPort", a)
  /\ UNCHANGED clock

WsStrayFrame(k) ==
  /\ Delivers(k)
  /\ \E data \in StrayFrames :
       /\ Commit(handleMessage(World, sock[k].mgr, data))
       /\ ev' = Ev("strayFrame", sock[k].mgr)
  /\ UNCHANGED clock

(* ------------------------------ Next ---------------------------------- *)
\* the two streaming lanes of an established session, with the clock
NextLane ==
  \/ Tick
  \/ ClearMessages
  \/ \E k \in Socks : WsTranscription(k)
  \/ \E k \in Socks : WsLLMChunk(k)

\* the conversation of an established session: the frames that touch its messages
NextConv ==
  \/ ClearMessages
  \/ \E k \in Socks : WsTranscription(k)
  \/ \E k \in Socks : WsLLMChunk(k)
  \/ \E k \in Socks : WsEmotion(k)

\* the other frames and calls of an established session
NextOther ==
  \/ SendMessage
  \/ \E k \in Socks : WsTurnComplete(k)
  \/ \E k \in Socks : WsConnectionMetadata(k)
  \/ \E k \in Socks : WsServerError(k)
  \/ \E k \in Socks : WsInterruption(k)
  \/ \E k \in Socks : WsSystemMessage(k)
  \/ \E k \in Socks : WsIdleWarning(k)

\* the lifecycle: connect(), disconnect(), the sockets, the timers and the audio devices
NextLife ==
  \/ \E c \in ConnCalls : Connect(c)
  \/ \E d \in DiscCalls : Disconnect(d)
  \/ ClearMessages
  \/ \E c \in ConnCalls : InitPermission(c)
  \/ \E c \in ConnCalls : InitGetUserMedia(c)
  \/ \E c \in ConnCalls : InitWorklet(c)
  \/ \E c \in ConnCalls : ConnResolved(c)
  \/ \E c \in ConnCalls : ConnRejected(c)
  \/ \E c \in ConnCalls : SettingsDelayDone(c)
  \/ \E p \in Calls : CtxClosed(p)
  \/ \E p \in Calls : TtsClosed(p)
  \/ \E c \in ConnCalls : ConnectTimeout(c)
  \/ \E m \in Mgrs : ReconnectTimeout(m)
  \/ \E m \in Mgrs : ReconnectTimer(m)
  \/ \E k \in Socks : SocketOpen(k)
  \/ \E k \in Socks : SocketError(k)
  \/ \E k \in Socks : SocketClose(k)

\* a WebSocketManager driven by its caller: connect(), disconnect(), the sockets, the timers
NextWire ==
  \/ \E m \in Mgrs : WsConnectCall(m)
  \/ \E m \in Mgrs : WsDisconnectCall(m)
  \/ \E m \in Mgrs : ReconnectTimeout(m)
  \/ \E m \in Mgrs : ReconnectTimer(m)
  \/ \E k \in Socks : SocketOpen(k)
  \/ \E k \in Socks : SocketError(k)
  \/ \E k \in Socks : SocketClose(k)

\* two connect() invocations on one session, while the transport opens or times out
NextAgain ==
  \/ \E c \in ConnCalls : Connect(c)
  \/ \E c \in AgainCalls : ConnectAgain(c)
  \/ \E c \in SessCalls : InitPermission(c)
  \/ \E c \in SessCalls : InitGetUserMedia(c)
  \/ \E c \in SessCalls : InitWorklet(c)
  \/ \E c \in SessCalls : ConnResolved(c)
  \/ \E c \in SessCalls : ConnRejected(c)
  \/ \E c \in SessCalls : SettingsDelayDone(c)
  \/ \E p \in SessCalls : CtxClosed(p)
  \/ \E p \in SessCalls : TtsClosed(p)
  \/ \E c \in SessCalls : ConnectTimeout(c)
  \/ \E k \in Socks : SocketOpen(k)

\* a WebSocketManager whose caller sends, while the sockets open and close
NextSend ==
  \/ \E m \in Mgrs : WsConnectCall(m)
  \/ \E m \in Mgrs : WsDisconnectCall(m)
  \/ \E m \in Mgrs : WsSendCall(m)
  \/ \E k \in Socks : SocketOpen(k)
  \/ \E k \in Socks : SocketClose(k)

\* an established session that receives stray frames among those of a conversation
NextStray ==
  \/ \E k \in Socks : WsTranscription(k)
  \/ \E k \in Socks : WsLLMChunk(k)
  \/ \E k \in Socks : WsStrayFrame(k)

\* the emotions of an established session: transcriptions and emotion batches
NextEmo ==
  \/ \E k \in Socks : WsTranscription(k)
  \/ \E k \in Socks : WsEmotionUpdate(k)

\* a session from construction to its conversation: text sent by the caller, one
\* connect() that succeeds, transcriptions and turn_complete frames
NextTurn ==
  \/ SendMessage
  \/ \E c \in ConnCalls : Connect(c)
  \/ \E c \in ConnCalls : InitPermission(c)
  \/ \E c \in ConnCalls : InitGetUserMedia(c)
  \/ \E c \in ConnCalls : InitWorklet(c)
  \/ \E k \in Socks : SocketOpen(k)
  \/ \E c \in ConnCalls : ConnResolved(c)
  \/ \E c \in ConnCalls : SettingsDelayDone(c)
  \/ \E k \in Socks : WsTranscription(k)
  \/ \E k \in Socks : WsTurnComplete(k)

\* idle warnings in an established session that hears the user now and then
NextIdle ==
  \/ ClearMessages
  \/ \E k \in Socks : WsTranscription(k)
  \/ \E k \in Socks : WsIdleWarning(k)

\* the connection status of a session: one connect() that succeeds, fails or times out,
\* idle warnings, and a socket that fails, closes and is opened again by the reconnection
\* timers
NextStatus ==
  \/ \E c \in ConnCalls : Connect(c)
  \/ \E c \in ConnCalls : InitPermission(c)
  \/ \E c \in ConnCalls : InitGetUserMedia(c)
  \/ \E c \in ConnCalls : InitWorklet(c)
  \/ \E c \in ConnCalls : ConnectTimeout(c)
  \/ \E c \in ConnCalls : ConnRejected(c)
  \/ \E c \in ConnCalls : ConnResolved(c)
  \/ \E c \in ConnCalls : SettingsDelayDone(c)
  \/ \E p \in ConnCalls : CtxClosed(p)
  \/ \E p \in ConnCalls : TtsClosed(p)
  \/ \E k \in Socks : SocketOpen(k)
  \/ \E k \in Socks : SocketError(k)
  \/ \E k \in Socks : SocketClose(k)
  \/ \E m \in Mgrs : ReconnectTimer(m)
  \/ \E k \in Socks : WsIdleWarning(k)

\* an established session whose visible fields change, and whose log is cleared
NextClear ==
  \/ ClearMessages
  \/ \E k \in Socks : WsTranscription(k)
  \/ \E k \in Socks : WsConnectionMetadata(k)
  \/ \E k \in Socks : WsServerError(k)
  \/ \E k \in Socks : WsIdleWarning(k)

\* one connect() from construction to the audio it captures, while the socket opens,
\* fails, closes and is opened again
NextStart ==
  \/ \E c \in ConnCalls : Connect(c)
  \/ \E c \in ConnCalls : InitPermission(c)
  \/ \E c \in ConnCalls : InitGetUserMedia(c)
  \/ \E c \in ConnCalls : InitWorklet(c)
  \/ \E c \in ConnCalls : ConnectTimeout(c)
  \/ \E c \in ConnCalls : ConnRejected(c)
  \/ \E c \in ConnCalls : ConnResolved(c)
  \/ \E c \in ConnCalls : SettingsDelayDone(c)
  \/ \E p \in ConnCalls : CtxClosed(p)
  \/ \E p \in ConnCalls : TtsClosed(p)
  \/ \E k \in Socks : SocketOpen(k)
  \/ \E k \in Socks : SocketError(k)
  \/ \E k \in Socks : SocketClose(k)
  \/ \E m \in Mgrs : ReconnectTimer(m)
  \/ \E a \in Ams : MicAudioData(a)

\* the playback of an established session: audio chunks, binary frames, interruptions
NextPlay ==
  \/ \E k \in Socks : WsTTSChunk(k)
  \/ \E k \in Socks : WsBinaryFrame(k)
  \/ \E k \in Socks : WsInterruption(k)
  \/ \E a \in Ams : WorkletProcess(a)
  \/ \E a \in Ams : TtsPortMessage(a)

\* the playback buffer of a session from construction: one connect() that succeeds, audio
\* chunks, the audio thread, and a caller that clears the buffer
NextBuffer ==
  \/ \E c \in ConnCalls : Connect(c)
  \/ \E c \in ConnCalls : InitPermission(c)
  \/ \E c \in ConnCalls : InitGetUserMedia(c)
  \/ \E c \in ConnCalls : InitWorklet(c)
  \/ \E k \in Socks : SocketOpen(k)
  \/ \E c \in ConnCalls : ConnResolved(c)
  \/ \E c \in ConnCalls : SettingsDelayDone(c)
  \/ \E k \in Socks : WsTTSChunk(k)
  \/ \E a \in Ams : WorkletProcess(a)
  \/ \E a \in Ams : TtsPortMessage(a)
  \/ \E a \in Ams : AmClearCall(a)

\* connection attempts of one WebSocketManager: its caller connects, the sockets open,
\* fail or close before they open, the backoff timers and the connect timeouts fire
NextHang ==
  \/ \E m \in Mgrs : WsConnectCall(m)
  \/ \E m \in Mgrs : ReconnectTimeout(m)
  \/ \E m \in Mgrs : ReconnectTimer(m)
  \/ \E k \in Socks : SocketOpen(k)
  \/ \E k \in Socks : SocketError(k)
  \/ \E k \in Socks : SocketClose(k)
  \/ \E k \in Socks : SocketCloseEarly(k)

Next ==
  \/ NextLife \/ NextLane \/ NextConv \/ NextOther \/ NextWire \/ NextSend \/ NextAgain
  \/ NextStray \/ NextPlay \/ NextEmo \/ NextTurn \/ NextIdle \/ NextStatus
  \/ NextClear \/ NextStart \/ NextBuffer \/ NextHang

Spec == Init /\ [][Next]_vars

\* the lifecycle alone, from construction
SpecLife == Init /\ [][NextLife]_vars

\* one WebSocketManager and its caller, from construction
SpecWire == Init /\ [][NextWire]_vars

\* one WebSocketManager and a caller that sends on it
SpecSend == Init /\ [][NextSend]_vars

\* a session on which connect() is invoked twice
SpecAgain == Init /\ [][NextAgain]_vars

\* the state in which connect() has just succeeded (reached by SpecLife: see Established)
InitLog ==
  /\ state = [initialState EXCEPT
                !.readyState = "connected", !.error = "null", !.isRecording = TRUE,
                !.messages = << [id |-> <<"msg", 0, 1>>, type |-> "system",
                                 content |-> "Connected to NextEVI. Start speaking!",
                                 metadata |-> NoMeta] >>]
  /\ currentStreamingMessageId = NullId
  /\ wsManagerRef = 1
  /\ audioManagerRef = 1
  /\ ws = [m \in Mgrs |-> IF m = 1
                          THEN [NewManager EXCEPT !.connectionState = "connected",
                                                  !.websocket = 1, !.config = TRUE]
                          ELSE NewManager]
  /\ sock = [k \in Socks |-> IF k = 1
                             THEN [FreeSocket EXCEPT !.mgr = 1, !.rs = "open", !.settings = TRUE]
                             ELSE FreeSocket]
  /\ am = [a \in Ams |-> IF a = 1
                         THEN [NewAudioManager EXCEPT
                                 !.mediaStream = TRUE, !.audioContext = TRUE,
                                 !.ttsAudioContext = TRUE, !.micWorkletNode = TRUE,
                                 !.ttsWorkletNode = TRUE, !.isRecording = TRUE,
                                 !.stream = "live", !.ctx = "open", !.tts = "open",
                                 !.acquired = 1]
                         ELSE NewAudioManager]
  /\ call = [p \in Calls |-> IF p = 1 THEN [NewCall EXCEPT !.pc = "done", !.am = 1, !.mgr = 1]
                                      ELSE NewCall]
  /\ clock = 0
  /\ ev = Ev("settingsDelayDone", 1)
  /\ hist = [NewHist EXCEPT !.settingsSent = TRUE]

\* the streaming lanes of an established session
SpecLane == InitLog /\ [][NextLane]_vars

\* the conversation of an established session
SpecConv == InitLog /\ [][NextConv]_vars

\* stray frames in the conversation of an established session
SpecStray == InitLog /\ [][NextStray]_vars

\* turn_complete frames in a session that connects
SpecTurn == Init /\ [][NextTurn]_vars

\* the connection status of a session, from construction
SpecStatus == Init /\ [][NextStatus]_vars

\* clearMessages() in an established session
SpecClear == InitLog /\ [][NextClear]_vars

\* connect() and the audio captured after it
SpecStart == Init /\ [][NextStart]_vars

\* idle warnings in an established session
SpecIdle == InitLog /\ [][NextIdle]_vars

\* emotion batches in an established session
SpecEmo == InitLog /\ [][NextEmo]_vars

\* audio playback in an established session
SpecPlay == InitLog /\ [][NextPlay]_vars

\* the playback buffer, from construction
SpecBuffer == Init /\ [][NextBuffer]_vars

\* the connection attempts of one WebSocketManager
SpecHang == Init /\ [][NextHang]_vars

\* SpecLife reaches the initial state of SpecLane and SpecConv
Established == InitLog

(* ======================= the message log: claims ====================== *)
\* C1: streaming coalescing on the user lane.  A non-final transcription with non-empty text
\* that follows one leaves the log as long as it was, its last message being the streaming
\* user message with the event's text; a final transcription with non-empty text that
\* follows an interim one finalizes that same message: the log is as long as before and its
\* last message keeps its id, has the final text, is final, not streaming, and carries the
\* event's confidence.
C1_FinalCoalesces ==
  [][ \A t \in Text \ {""}, isFinal \in BOOLEAN, c \in Conf :
        LET n == Len(state.messages)
            result == [transcript |-> t, isFinal |-> isFinal, confidence |-> c]
        IN ( /\ ev.op = "transcription" /\ ev'.op = "transcription"
             /\ n > 0
             /\ state.messages[n].type = "user"
             /\ state.messages[n].metadata.isStreaming
             /\ state' = onTranscription(World, result).state )
           => /\ Len(state'.messages) = n
              /\ state'.messages[n].id = state.messages[n].id
              /\ state'.messages[n].type = "user"
              /\ state'.messages[n].content = t
              /\ state'.messages[n].metadata.isStreaming = ~isFinal
              /\ isFinal => /\ state'.messages[n].metadata.isFinal
                            /\ state'.messages[n].metadata.confidence = c ]_vars

\* C2: in every reachable state at most one user message and at most one assistant message
\* of the log is streaming.
C2_OneStreamingPerLane ==
  \A lane \in {"user", "assistant"} :
    Cardinality({i \in 1..Len(state.messages) :
                   /\ state.messages[i].type = lane
                   /\ state.messages[i].metadata.isStreaming}) <= 1

\* C3: a final LLM chunk that follows a non-final one finalizes the streaming assistant
\* message in place: the log is as long as before, its last message keeps its id, has the
\* final chunk's content and is not streaming, and no assistant message is left streaming.
C3_FinalChunkInPlace ==
  [][ \A t \in Text :
        LET n == Len(state.messages)
            W == onLLMChunk(World, [content |-> t, isFinal |-> TRUE])
        IN ( /\ ev.op = "llm" /\ ev'.op = "llm"
             /\ currentStreamingMessageId # NullId
             /\ n > 0
             /\ state.messages[n].type = "assistant"
             /\ state.messages[n].metadata.isStreaming
             /\ state' = W.state
             /\ currentStreamingMessageId' = W.csm )
           => /\ Len(state'.messages) = n
              /\ state'.messages[n].id = state.messages[n].id
              /\ state'.messages[n].content = t
              /\ \A i \in 1..n : state'.messages[i].type = "assistant"
                                    => ~state'.messages[i].metadata.isStreaming ]_vars

\* C4: the log is append-only.  For every event other than clearMessages and the reset done
\* by disconnect(), the ids of the messages before the event are a prefix of the ids of the
\* messages after it: nothing is removed or reordered.
C4_AppendOnly ==
  [][ LET before == state.messages
          after == state'.messages
          reset == \E d \in DiscCalls : call[d].pc # "done" /\ call'[d].pc = "done"
      IN (ev'.op # "clearMessages" /\ ~reset)
         => /\ Len(before) <= Len(after)
            /\ \A i \in 1..Len(before) : after[i].id = before[i].id ]_vars

\* an emotion frame has attached its emotions to a user message in the middle of the log
C4_Witness ==
  /\ ev.op = "emotion"
  /\ \E i \in 1..Len(state.messages) :
       /\ state.messages[i].type = "user"
       /\ state.messages[i].metadata.emotions # "none"
       /\ i < Len(state.messages)
       /\ state.messages[Len(state.messages)].metadata.isStreaming

\* C5: no two messages of the log carry the same id.
C5_UniqueIds ==
  \A i, j \in 1..Len(state.messages) :
    i # j => state.messages[i].id # state.messages[j].id

(* ========================= the lifecycle: claims ====================== *)
\* C6: disconnect() is idempotent.  A disconnect() invoked while no other disconnect() is
\* running, from any state, finishes without an error and leaves the initial state.
C6_DisconnectIdempotent ==
  \A d \in DiscCalls :
    ( /\ call[d].solo
      /\ call[d].pc \in {"done", "failed"}
      /\ ev.p = d /\ ev.op \in {"disconnect", "ctxClosed", "ttsClosed"} )
    => call[d].pc = "done" /\ state = initialState

\* C7: a single disconnect() invoked at any point after connect() was invoked releases
\* everything: once both calls have finished no socket is left, the microphone stream is
\* stopped and both audio contexts are closed, and each of them was released once.
C7_ReleasedOnce ==
  \A c \in ConnCalls, d \in DiscCalls :
    ( /\ call[c].pc \in {"done", "rejected"}
      /\ call[d].pc \in {"done", "failed"}
      /\ call[d].after
      /\ \A e \in DiscCalls \ {d} : call[e].pc = "idle" )
    => /\ \A k \in Socks : sock[k].rs = "free"
       /\ am[c].stream \in {"none", "stopped"}
       /\ am[c].ctx \in {"none", "closed"}
       /\ am[c].tts \in {"none", "closed"}
       /\ am[c].streamStops <= 1 /\ am[c].ctxCloses <= 1 /\ am[c].ttsCloses <= 1

\* C8: once a disconnect() invoked after connect() has completed, only calls of the caller
\* change the state: no socket event, timer or continuation of the connect() does.
C8_NoLateHandler ==
  [][ ( /\ \E d \in DiscCalls : call[d].pc = "done" /\ call[d].after
        /\ ev'.op \notin {"connect", "disconnect", "clearMessages", "sendMessage"}
        /\ ~(ev'.op \in {"ctxClosed", "ttsClosed"} /\ ev'.p \in DiscCalls) )
      => state' = state ]_vars

\* C9: rollback on mid-connect failure.  When connect() has rejected because the transport
\* failed to open (error or timeout), and no disconnect() is running, isRecording is
\* false, the microphone stream acquired by the connect() is stopped, both audio contexts
\* are closed and no socket is left.
C9_Rollback ==
  \A c \in ConnCalls :
    ( /\ call[c].pc = "rejected"
      /\ call[c].cause \in {"ws_error", "ws_timeout"}
      /\ \A d \in DiscCalls : call[d].pc \in {"idle", "done", "failed"} )
    => /\ ~state.isRecording
       /\ ~am[c].isRecording
       /\ am[c].stream = "stopped"
       /\ am[c].ctx = "closed"
       /\ am[c].tts = "closed"
       /\ \A k \in Socks : sock[k].rs = "free"

\* connect() has rejected after a timeout of the transport, and released the microphone once
C9_Witness ==
  /\ call[1].pc = "rejected" /\ call[1].cause = "ws_timeout"
  /\ call[1].err = "CONNECTION_FAILED"
  /\ am[1].streamStops = 1 /\ am[1].ctxCloses = 1 /\ am[1].ttsCloses = 1
  /\ \A d \in DiscCalls : call[d].pc = "idle"

\* C10: the reconnection bound.  After four consecutive abnormal closures of a manager, with
\* no open in between, its state is Error, the 'maximum reconnection attempts' error was
\* signalled once, and no reconnection is scheduled or under way; none is scheduled after
\* the signal.
C10_ReconnectionBound ==
  /\ \A m \in Mgrs :
       hist.closures[m] >= maxReconnectAttempts + 1
       => /\ ws[m].connectionState = "error"
          /\ hist.maxErr[m] = 1
          /\ ws[m].timers = 0
          /\ ws[m].websocket = 0
          /\ hist.closures[m] = maxReconnectAttempts + 1
  /\ ~hist.schedAfterMax

\* the fourth consecutive closure has just happened
C10_Witness ==
  /\ ev.op = "close"
  /\ hist.closures[1] = maxReconnectAttempts + 1
  /\ ws[1].reconnectAttempts = maxReconnectAttempts
  /\ state.error = "Maximum reconnection attempts exceeded"

(* ========================= the transport: claims ====================== *)
\* C11: the close-code taxonomy of handleClose.  A close with code 1000 leaves the manager
\* Disconnected, signals no error (no message is appended, no error is set) and schedules
\* no reconnection; a close with a code of 4000 or more leaves it in Error, signals an error
\* whose details carry the code and the reason of the server and whose text carries the
\* reason, and schedules no reconnection; a close with any other code does what
\* attemptReconnection does and nothing else.
C11_CloseTaxonomy ==
  [][ ev'.op = "close" =>
        LET m == ev'.p
            code == ev'.code
            n == Len(state.messages)
            retry == attemptReconnection([World EXCEPT !.ws[m].websocket = 0], m, R1)
        IN IF code = 1000
           THEN /\ ws'[m].connectionState = "disconnected"
                /\ state'.messages = state.messages
                /\ state'.error \in {state.error, "null"}
                /\ ws'[m].timers = ws[m].timers
                /\ ws'[m].reconnectAttempts = ws[m].reconnectAttempts
           ELSE IF code >= 4000
           THEN /\ ws'[m].connectionState = "error"
                /\ hist'.details = [code |-> code, reason |-> Reason]
                /\ state'.error = "Connection closed: " \o Reason
                /\ Len(state'.messages) = n + 1
                /\ state'.messages[n + 1].type = "error"
                /\ ws'[m].timers = ws[m].timers
                /\ ws'[m].reconnectAttempts = ws[m].reconnectAttempts
           ELSE /\ ws' = retry.ws
                /\ state' = retry.state ]_vars

\* the server has just closed an open socket with the code 4000
C11_Witness ==
  /\ ev.op = "close" /\ ev.code = 4000
  /\ ws[1].connectionState = "error"
  /\ hist.details.code = 4000
  /\ state.error = "Connection closed: " \o Reason

\* C12: after disconnect() the manager is Disconnected, holds no socket and no configuration,
\* and the call schedules no reconnection; a backoff timer that was scheduled before a
\* disconnect() opens no socket when it fires afterwards, whatever was called in between.
C12_NoReconnectAfterDisconnect ==
  [][ /\ ev'.op = "wsDisconnect"
         => /\ ws'[ev'.p].connectionState = "disconnected"
            /\ ws'[ev'.p].websocket = 0
            /\ ~ws'[ev'.p].config
            /\ ws'[ev'.p].timers = ws[ev'.p].timers
      /\ (ev'.op = "reconnectTimer" /\ hist'.stale[ev'.p] < hist.stale[ev'.p])
         => sock' = sock ]_vars

\* C13: automatic reconnection.  When the session is established (its connect() succeeded),
\* no disconnect() was called, and the manager lost its socket to an abnormal closure that
\* scheduled a backoff timer, the firing of that timer opens a new socket for the manager,
\* with the configuration it kept.
C13_Reconnects ==
  [][ \A m \in Mgrs :
        ( /\ ev'.op = "reconnectTimer" /\ ev'.p = m
          /\ call[m].pc = "done"
          /\ \A d \in DiscCalls : call[d].pc = "idle"
          /\ ws[m].config
          /\ ws[m].websocket = 0 )
        => /\ ws'[m].websocket # 0
           /\ sock[ws'[m].websocket].rs = "free"
           /\ sock'[ws'[m].websocket] = [FreeSocket EXCEPT !.mgr = m, !.rs = "connecting"]
           /\ ws'[m].config ]_vars

\* C14: a transient failure of an established session is surfaced only when the retries are
\* exhausted.  When the session is established, no disconnect() was called and the manager
\* has retries left, an error event or an abnormal closure (code other than 1000, below
\* 4000) of its socket sets no error, appends no message and does not move the visible
\* state to Error.
C14_SilentWhileRetriesRemain ==
  [][ \A m \in Mgrs :
        ( /\ ev'.p = m
          /\ \/ ev'.op = "error"
             \/ ev'.op = "close" /\ ev'.code # 1000 /\ ev'.code < 4000
          /\ call[m].pc = "done"
          /\ \A d \in DiscCalls : call[d].pc = "idle"
          /\ ws[m].config
          /\ ws[m].reconnectAttempts < maxReconnectAttempts )
        => /\ state'.error = state.error
           /\ state'.messages = state.messages
           /\ state'.readyState # "error" ]_vars

(* ===================== connect() on a session: claims ================= *)
\* C15: connect() invoked with a valid configuration while the session is connected, or
\* while another connect() is running, is a no-op: no step of that invocation acquires a
\* microphone stream or an audio context, opens a socket, sends a frame, appends a message
\* or changes the visible state.
C15_ConnectAgainNoOp ==
  [][ \A c \in AgainCalls :
        (ev'.p = c /\ call'[c].cause # "config")
        => /\ state' = state
           /\ sock' = sock
           /\ am' = am ]_vars

\* C16: connect() with a configuration that fails validation rejects with INVALID_CONFIG
\* and touches no resource: the call leaves the sockets, the managers, the audio devices
\* and the recording state as they were.
C16_InvalidConfigTouchesNothing ==
  [][ \A c \in SessCalls :
        ( /\ ev'.op = "connect" /\ ev'.p = c
          /\ call[c].pc = "idle"
          /\ call'[c].cause = "config" )
        => /\ call'[c].pc = "rejected"
           /\ call'[c].err = "INVALID_CONFIG"
           /\ sock' = sock /\ ws' = ws /\ am' = am
           /\ wsManagerRef' = wsManagerRef /\ audioManagerRef' = audioManagerRef
           /\ state'.isRecording = state.isRecording
           /\ state'.readyState = state.readyState ]_vars

\* C17: a connect() that failed because the microphone was denied (by the permission query
\* or by getUserMedia) has rejected with the code MICROPHONE_ACCESS_DENIED, and one that
\* failed in any other step of the audio initialisation with AUDIO_INITIALIZATION_FAILED.
C17_MicrophoneDeniedCode ==
  \A c \in SessCalls :
    /\ call[c].cause = "mic_denied" => call[c].err = "MICROPHONE_ACCESS_DENIED"
    /\ call[c].cause = "audio_init" => call[c].err = "AUDIO_INITIALIZATION_FAILED"

\* C18: connect() called on a manager that is Connected or has a connect in progress returns
\* without a change (no socket is created); and after every step a manager has at most one
\* socket that is not closed.
C18_OneLiveSocket ==
  [][ /\ \A m \in Mgrs :
           ( /\ ev'.op = "wsConnect" /\ ev'.p = m
             /\ ~wsConnectProceeds(World, m) )
           => sock' = sock /\ ws' = ws
      /\ \A m \in Mgrs :
           Cardinality({k \in Socks : sock'[k].mgr = m /\ sock'[k].rs # "free"}) <= 1 ]_vars

C21_BinaryForwarded ==
  [][ ev'.op = "binaryFrame" /\ audioManagerRef # 0 /\ am[audioManagerRef].ttsWorkletNode
      => am'[audioManagerRef].bufferQueue # am[audioManagerRef].bufferQueue ]_vars

\* C22: interruption.  The step that handles a tts_interruption frame sets isTTSPlaying to
\* false and leaves the playback queue of every audio manager empty, so that nothing queued
\* before the interruption can be played after it.
C22_InterruptionClearsQueue ==
  [][ ev'.op = "interruption"
      => /\ ~state'.isTTSPlaying
         /\ \A a \in Ams : am'[a].bufferQueue = << >> ]_vars

(* ===================== conversation events: claims ==================== *)
\* C23: emotion best-effort attachment.  An emotion batch attaches its emotions to the most
\* recent user message that carries none and changes nothing else; a batch that arrives
\* when every user message of the log carries emotions leaves the state unchanged.
C23_EmotionAttachment ==
  [][ ev'.op = "emotionBatch"
      => LET U == {i \in 1..Len(state.messages) :
                     /\ state.messages[i].type = "user"
                     /\ state.messages[i].metadata.emotions = "none"}
         IN IF U = {}
            THEN state' = state
            ELSE \E i \in U, e \in TopEmotions \ {"none"} :
                   /\ \A j \in U : j <= i
                   /\ state' = [state EXCEPT !.messages[i].metadata.emotions = e] ]_vars

\* a second batch has arrived after the only user message got the emotions of the first
C23_Witness ==
  /\ ev.op = "emotionBatch"
  /\ ev.code = 0
  /\ \E i \in 1..Len(state.messages) :
       /\ state.messages[i].type = "user"
       /\ state.messages[i].metadata.emotions # "none"

\* C24: turn completion.  A turn_complete frame whose transcript is the content of the most
\* recent user message of the log marks that message as turnComplete and changes nothing
\* else; a frame that matches no user message leaves the state unchanged: in neither case
\* is a message created.
C24_TurnCompleteAttaches ==
  [][ ev'.op = "turnComplete"
      => IF ev'.code # 0
         THEN state' = [state EXCEPT !.messages[ev'.code].metadata.turnComplete = TRUE]
         ELSE state' = state ]_vars

\* C25: idle warning.  An idle_warning frame sets the idle-warning snapshot to active with
\* the remaining time and the warning type of the frame (an ordinary warning when the frame
\* names none), appends exactly one message of role warning to the log and changes nothing
\* else; after it the derived isFinalWarning is true exactly when the warning type of the
\* frame was final_warning.
C25_IdleWarning ==
  [][ ev'.op = "idleWarning"
      => LET t == IF ev'.arg = "none" THEN "warning" ELSE ev'.arg
             n == Len(state.messages)
         IN /\ state'.idleWarning = [active |-> TRUE, timeRemaining |-> ev'.code, type |-> t]
            /\ Len(state'.messages) = n + 1
            /\ SubSeq(state'.messages, 1, n) = state.messages
            /\ state'.messages[n + 1].type = "warning"
            /\ [state' EXCEPT !.idleWarning = state.idleWarning, !.messages = state.messages]
                 = state
            /\ useVoiceIdleTimeout(state').hasIdleWarning
            /\ useVoiceIdleTimeout(state').isFinalWarning <=> (ev'.arg = "final_warning") ]_vars

\* a final warning has arrived after an ordinary one: two warning messages in the log
C25_Witness ==
  /\ ev.op = "idleWarning"
  /\ ev.arg = "final_warning"
  /\ useVoiceIdleTimeout(state).isFinalWarning
  /\ Len(state.messages) >= 2
  /\ state.messages[Len(state.messages)].metadata.messageType = "hangup"
  /\ state.messages[Len(state.messages) - 1].metadata.messageType = "warning"

\* C26: connection state change.  A step in which the connection state of the transport
\* changes leaves the visible connection status equal to the new state and the idle-warning
\* snapshot cleared (on a transition to Disconnected as on any other); after a transition
\* to Connected no error is pending.
C26_StateChange ==
  [][ \A m \in Mgrs :
        ws'[m].connectionState # ws[m].connectionState
        => /\ state'.readyState = ws'[m].connectionState
           /\ ~useVoiceIdleTimeout(state').hasIdleWarning
           /\ ws'[m].connectionState = "connected" => state'.error = "null" ]_vars

\* the socket of a connect() that timed out has opened late (Connected: the error of the
\* failed connect() is cleared), an idle warning was shown, and the socket has closed
\* (Disconnected: the warning is cleared)
C26_Witness ==
  /\ ev.op = "close"
  /\ state.readyState = "disconnected"
  /\ state.error = "null"
  /\ ~state.idleWarning.active
  /\ \E i \in 1..Len(state.messages) : state.messages[i].type = "warning"
  /\ \E i \in 1..Len(state.messages) : state.messages[i].type = "error"

\* C27: clearMessages.  A clearMessages() call empties the message log and leaves every
\* other field of the visible state unchanged (connection status, recording, TTS-playing
\* and waiting-for-response flags, error, idle warning, connection metadata); it closes no
\* socket, stops no audio and keeps the managers.
C27_ClearMessages ==
  [][ ev'.op = "clearMessages"
      => /\ state' = [state EXCEPT !.messages = << >>]
         /\ ws' = ws /\ sock' = sock /\ am' = am
         /\ wsManagerRef' = wsManagerRef /\ audioManagerRef' = audioManagerRef ]_vars

\* the log was cleared while the session was connected and recording, a reply was
\* awaited, and an error, an idle warning and the connection metadata were set
C27_Witness ==
  /\ ev.op = "clearMessages"
  /\ state.messages = << >>
  /\ state.readyState = "connected" /\ state.isRecording
  /\ state.isWaitingForResponse
  /\ state.error \notin {"null", "undefined"}
  /\ state.idleWarning.active
  /\ state.connectionMetadata # initialState.connectionMetadata
  /\ \E k \in Socks : sock[k].rs = "open"
  /\ \E a \in Ams : am[a].isRecording /\ am[a].stream = "live"

(* ======================== error surfacing: claims ===================== *)
\* C28: fatal errors are visible.  When a failed connect() rejects, the error field of the
\* visible state is set (neither null nor undefined) and the log contains a message of role
\* error.
C28_ErrorVisibleOnReject ==
  [][ \A c \in ConnCalls :
        call[c].pc # "rejected" /\ call'[c].pc = "rejected"
        => /\ state'.error \notin {"null", "undefined"}
           /\ \E i \in 1..Len(state'.messages) : state'.messages[i].type = "error" ]_vars

(* ======================== response flags: claims ====================== *)
\* C29: waiting for the response.  After a final transcription with non-empty text
\* isWaitingForResponse is true; after a final chunk of the assistant's reply it is false.
C29_WaitingFlag ==
  [][ /\ ( /\ ev'.op = "transcription"
           /\ \E t \in Text \ {""}, c \in Conf :
                LET W == onTranscription(World, [transcript |-> t, isFinal |-> TRUE,
                                                 confidence |-> c])
                IN state'.messages = W.state.messages )
         => state'.isWaitingForResponse
      /\ ( /\ ev'.op = "llm"
           /\ \E t \in Text :
                LET W == onLLMChunk(World, [content |-> t, isFinal |-> TRUE])
                IN /\ state'.messages = W.state.messages
                   /\ currentStreamingMessageId' = W.csm )
         => ~state'.isWaitingForResponse ]_vars

\* the final chunk of a reply has arrived after a final transcription: the flag, raised by
\* the transcription, is down
C29_Witness ==
  /\ ev.op = "llm"
  /\ ~state.isWaitingForResponse
  /\ \E i \in 1..Len(state.messages) - 1 :
       /\ state.messages[i].type = "user" /\ state.messages[i].metadata.isFinal
       /\ state.messages[i + 1].type = "assistant" /\ state.messages[i + 1].metadata.isFinal

(* ========================= connect order: claims ====================== *)
\* C30: the order of a successful connect().  The session_settings frame is sent on an open
\* socket, once the audio is initialised, before the capture starts and before any audio
\* frame; the capture starts only after session_settings was sent; isRecording becomes true
\* only in a step that leaves the capture started and the 'connected' message last in the
\* log; and an audio frame is never sent unless session_settings was sent before.
C30_ConnectOrder ==
  [][ /\ hist'.settingsSent /\ ~hist.settingsSent
           => /\ \E k \in Socks : sock[k].rs = "open" /\ sock'[k].settings
              /\ audioManagerRef # 0
              /\ am[audioManagerRef].mediaStream /\ am[audioManagerRef].audioContext
              /\ am[audioManagerRef].ttsAudioContext
              /\ ~am[audioManagerRef].isRecording
              /\ ~hist.audioSent
      /\ \A a \in Ams : am'[a].isRecording /\ ~am[a].isRecording => hist.settingsSent
      /\ state'.isRecording /\ ~state.isRecording
           => /\ audioManagerRef' # 0
              /\ am'[audioManagerRef'].isRecording /\ am'[audioManagerRef'].micWorkletNode
              /\ state'.messages[Len(state'.messages)].type = "system"
              /\ state'.messages[Len(state'.messages)].content
                   = "Connected to NextEVI. Start speaking!"
      /\ hist'.audioSent => hist'.settingsSent ]_vars

\* connect() has succeeded and the first audio frame has gone out on the socket on which
\* session_settings was sent
C30_Witness ==
  /\ ev.op = "audioData"
  /\ \E c \in ConnCalls : call[c].pc = "done"
  /\ state.isRecording
  /\ \E k \in Socks : sock[k].rs = "open" /\ sock[k].settings /\ sock[k].audio > 0

(* ======================= captured audio: claims ======================= *)
\* C31: audio is never buffered for replay.  An audio frame is sent on a socket only by the
\* step that captured it, while the audio manager records, on the socket held by a manager in
\* state Connected, open before and after the step; a frame captured while the manager of
\* the session is not connected (before the open, in a reconnection gap, after a close)
\* leaves every object of the program as it was, so that nothing keeps it for later.
C31_NoReplay ==
  [][ /\ \A k \in Socks :
           sock'[k].audio > sock[k].audio
           => /\ ev'.op = "audioData"
              /\ am[ev'.p].isRecording
              /\ sock[k].rs = "open" /\ sock'[k].rs = "open"
              /\ sock[k].mgr = wsManagerRef
              /\ ws[sock[k].mgr].connectionState = "connected"
              /\ ws[sock[k].mgr].websocket = k
      /\ hist'.audioSent /\ ~hist.audioSent => \E k \in Socks : sock'[k].audio > sock[k].audio
      /\ ( /\ ev'.op = "audioData"
           /\ \/ wsManagerRef = 0
              \/ ws[wsManagerRef].connectionState # "connected"
              \/ ws[wsManagerRef].websocket = 0
              \/ sock[ws[wsManagerRef].websocket].rs # "open" )
         => UNCHANGED <<state, currentStreamingMessageId, wsManagerRef, audioManagerRef,
                        ws, sock, am, call, hist>> ]_vars

\* audio was sent, the socket closed, and a frame was captured in the gap: the manager still
\* reports Connected and holds no socket
C31_Witness ==
  /\ ev.op = "audioData"
  /\ hist.audioSent
  /\ am[ev.p].isRecording
  /\ wsManagerRef # 0
  /\ ws[wsManagerRef].connectionState = "connected"
  /\ ws[wsManagerRef].websocket = 0
  /\ \A k \in Socks : sock[k].audio = 0

(* ======================== playback signals: claims ==================== *)
\* the samples the playback worklet of the audio manager a still has to play
RECURSIVE SumLengths(_)
SumLengths(q) == IF q = << >> THEN 0 ELSE Head(q) + SumLengths(Tail(q))

QueuedSamples(a) == SumLengths(am[a].bufferQueue) - am[a].readOffset

\* the process callback of this step posted the message signal
Emitted(a, signal) ==
  /\ Len(am'[a].port) = Len(am[a].port) + 1
  /\ am'[a].port[Len(am'[a].port)] = signal

\* C32: playback signals.  A process callback posts 'playbackStarted' exactly when it finds
\* samples queued while the processor is not playing, and 'playbackStopped' exactly when it
\* finds no sample queued while the processor is playing; once every message posted has
\* arrived, isTTSPlaying of the AudioManager and of the visible state tell whether the
\* message posted last was 'playbackStarted'.
C32_PlaybackSignals ==
  [][ /\ \A a \in Ams :
           ev'.op = "process" /\ ev'.p = a
           => /\ Emitted(a, "playbackStarted") <=> (QueuedSamples(a) > 0 /\ ~am[a].workletPlaying)
              /\ Emitted(a, "playbackStopped") <=> (QueuedSamples(a) = 0 /\ am[a].workletPlaying)
      /\ \A a \in Ams :
           audioManagerRef' = a /\ am'[a].ttsWorkletNode /\ am'[a].port = << >>
           => /\ am'[a].isTTSPlaying = (hist'.lastSignal = "playbackStarted")
              /\ state'.isTTSPlaying = (hist'.lastSignal = "playbackStarted") ]_vars

C34_Backoff ==
  [][ /\ \A m \in Mgrs :
           ws'[m].timers > ws[m].timers
           => /\ ev'.op = "close" /\ ev'.p = m
              /\ hist'.closures[m] \in 1..maxReconnectAttempts
              /\ ws'[m].reconnectAttempts = hist'.closures[m]
              /\ ws[m].reconnectAttempts = hist'.closures[m] - 1
              /\ ws'[m].lastDelay = CASE hist'.closures[m] = 1 -> 1000
                                      [] hist'.closures[m] = 2 -> 2000
                                      [] OTHER -> 4000
      /\ \A m \in Mgrs : ws'[m].reconnectAttempts \in 0..maxReconnectAttempts
      /\ \A m \in Mgrs : ev'.op = "open" /\ ev'.p = m => ws'[m].reconnectAttempts = 0
      /\ \A m \in Mgrs :
           \/ ev'.op = "wsDisconnect" /\ ev'.p = m
           \/ ev'.op \in {"disconnect", "ctxClosed", "ttsClosed"} /\ wsManagerRef = m
                 /\ wsManagerRef' = 0
           => ws'[m].reconnectAttempts = 0 ]_vars

\* the third consecutive closure has just scheduled its reconnection
C34_Witness ==
  /\ ev.op = "close"
  /\ ws[ev.p].reconnectAttempts = maxReconnectAttempts
  /\ ws[ev.p].lastDelay = 4000
  /\ ws[ev.p].timers > 0
  /\ hist.closures[ev.p] = maxReconnectAttempts

\* C35: a manager whose state is Connected holds a live socket: its websocket is not null
\* and that socket is open, whatever the code of the closures before and whether or not an
\* error event preceded them.
C35_ConnectedHasSocket ==
  \A m \in Mgrs :
    ws[m].connectionState = "connected"
    => /\ ws[m].websocket # 0
       /\ sock[ws[m].websocket].rs = "open"

(* ====================== the outcome of connect(): claims ============== *)
\* C36: connect() of the session sets isRecording and appends the 'connected' system
\* message only while the manager of the session is Connected and holds an open socket.
C36_RecordingOnlyWhenConnected ==
  [][ state'.isRecording /\ ~state.isRecording
      => /\ wsManagerRef' # 0
         /\ ws'[wsManagerRef'].connectionState = "connected"
         /\ ws'[wsManagerRef'].websocket # 0
         /\ sock'[ws'[wsManagerRef'].websocket].rs = "open" ]_vars

\* C37: no connection attempt stays in Connecting for ever.  A manager in state Connecting
\* has an event left that can end the attempt: a socket of its own that has not closed, a
\* backoff timer, or the timeout of a pending connect(); without one, nothing but a call
\* of its owner changes its state again.
C37_ConnectingEnds ==
  \A m \in Mgrs :
    ws[m].connectionState = "connecting"
    => \/ \E k \in Socks : sock[k].mgr = m /\ sock[k].rs # "free"
       \/ ws[m].timers > 0
       \/ ws[m].pendingReconn > 0

(* ======================= error notifications: claims ================== *)
\* C38: when the transport goes to Error on its own (an error event of the socket, a close
\* with a code of 4000 or more, a closure that finds the reconnection attempts used up), the
\* change of state, which clears the visible error, is delivered before the error: after
\* the step the manager is in Error, and the visible state has readyState 'error' and
\* the text of that error in its error field.
C38_ErrorAfterStateChange ==
  [][ \A m \in Mgrs :
        /\ ( ev'.op = "error" /\ ev'.p = m
             => /\ ws'[m].connectionState = "error"
                /\ state'.readyState = "error"
                /\ state'.error = "WebSocket connection error" )
        /\ ( ev'.op = "close" /\ ev'.p = m /\ ev'.code >= 4000
             => /\ ws'[m].connectionState = "error"
                /\ state'.readyState = "error"
                /\ state'.error = "Connection closed: " \o Reason )
        /\ ( ev'.op = "close" /\ ev'.p = m /\ hist'.maxErr[m] > hist.maxErr[m]
             => /\ ws'[m].connectionState = "error"
                /\ state'.readyState = "error"
                /\ state'.error = "Maximum reconnection attempts exceeded" ) ]_vars

\* a connected session was closed by the server with code 4000
C38_Witness ==
  /\ ev.op = "close" /\ ev.code = 4000
  /\ ws[ev.p].connectionState = "error"
  /\ state.readyState = "error"
  /\ state.error = "Connection closed: " \o Reason
  /\ state.isRecording

\* C39: the playback signals strictly alternate, beginning with 'playbackStarted': a process
\* callback posts 'playbackStarted' only when the message posted last was not one, and
\* 'playbackStopped' only when it was; and a clearTTSBuffer() call made while the playback
\* reported last is 'started' leaves the worklet due to post 'playbackStopped' at its next
\* callback, so that isTTSActive() and the visible isTTSPlaying become false when no further
\* audio arrives.
C39_SignalsAlternate ==
  [][ \A a \in Ams :
        /\ Emitted(a, "playbackStarted") => hist.lastSignal # "playbackStarted"
        /\ Emitted(a, "playbackStopped") => hist.lastSignal = "playbackStarted"
        /\ ( /\ ev'.op = "clearTTS" /\ ev'.p = a
             /\ am[a].ttsWorkletNode
             /\ hist.lastSignal = "playbackStarted" /\ am[a].workletPlaying )
           => am'[a].workletPlaying ]_vars

\* C40: on every socket, also one opened by the reconnection timer, the session_settings
\* frame is sent before the first audio frame: a socket on which audio was sent is one on
\* which the session settings were sent.
C40_SettingsBeforeAudio ==
  \A k \in Socks : sock[k].audio > 0 => sock[k].settings
====
